---- MODULE Spec2Model ----
(***************************************************************************)
(* A model of nest-utilities: the query translation layer                  *)
(* (castQueryConditions, toPrimitive, limitPopulateOptionsDepth,           *)
(* queryToOptions, the QueryOptions decorator), the CrudController         *)
(* permission check, CrudService.find and its count header, the error     *)
(* filter/interceptor, the response interceptors (pagination, filter,      *)
(* sort, pick), the casters that find of part_010 swaps, and the static    *)
(* cache of the CacheInterceptor.                                          *)
(*                                                                         *)
(* JavaScript strings are sequences of one-character strings, so that      *)
(* split("."), startsWith("$"), the regular expressions and                *)
(* decodeURIComponent are computed on characters.  JavaScript values are   *)
(* tagged records: the tag t is compared first and decides the shape.      *)
(***************************************************************************)
EXTENDS Integers, Sequences, FiniteSets, TLC

VARIABLES
    value,          \* toPrimitive: the string handed to it
    primitive,      \* toPrimitive: what it returned
    request,        \* QueryOptions: the express request (query, header)
    config,         \* QueryOptions: the decorator's config (maxDepth)
    decorator,      \* QueryOptions: which version of the decorator ran
    result,         \* QueryOptions: what the decorator returned or threw
    exception,      \* errors: the error that reaches the filter or interceptor
    showErrorDetails, \* errors: the constructor argument of HttpExceptionFilter
    stackOption,    \* errors: options.stack of ExceptionInterceptor
    handled,        \* errors: which handler ran
    answer,         \* errors: the response written, or the error rethrown
    permissions,    \* controller: the ICrudPermissions handed to the constructor
    endpoint,       \* controller: the endpoint that was requested
    invoked,        \* controller: the CrudService method the endpoint invoked
    thrown,         \* controller: what the endpoint threw
    findConditions, \* find: the conditions object of the caller
    mongoRequest,   \* find: the filters and the request of the caller
    httpQuery,      \* find: the http query of a request to getAll
    executed,       \* find: the conditions handed to collection.find
    found,          \* find: the documents that collection.find returned
    findOptions,    \* find: options.skip and options.limit of the mongoRequest
    context,        \* find: whether the request carries an execution context
    xTotalCount,    \* find: the X-total-count header written to the response
    handlerValue,   \* interceptors: the value the route handler returned
    queryParams,    \* interceptors: the query of the request
    interceptor,    \* interceptors: which interceptor ran
    emitted,        \* interceptors: the value and the header sent to the client
    schemaCasters,  \* casters: the cast function installed for every schema type
    findCalls,      \* casters: the calls of find of part_010 in flight
    cache,          \* cache: CacheInterceptor.cache, the newest entry first
    inFlight        \* cache: per url, the requests whose handler has not emitted yet

primitiveVars == <<value, primitive>>
queryVars == <<request, config, decorator, result>>
errorVars == <<exception, showErrorDetails, stackOption, handled, answer>>
controllerVars == <<permissions, endpoint, invoked, thrown>>
findVars ==
    <<findConditions, mongoRequest, httpQuery, executed, found, findOptions, context,
      xTotalCount>>
interceptorVars == <<handlerValue, queryParams, interceptor, emitted>>
casterVars == <<schemaCasters, findCalls>>
cacheVars == <<cache, inFlight>>
vars ==
    <<primitiveVars, queryVars, errorVars, controllerVars, findVars, interceptorVars,
      casterVars, cacheVars>>

(***************************************************************************)
(* JavaScript values                                                       *)
(***************************************************************************)
Str(s) == [t |-> "str", s |-> s]
Num(i, f) == [t |-> "num", i |-> i, f |-> f]
Bool(b) == [t |-> "bool", b |-> b]
Null == [t |-> "null"]
Undefined == [t |-> "undefined"]
Fn == [t |-> "function"]
Obj(kv) == [t |-> "obj", kv |-> kv]
Arr(a) == [t |-> "arr", a |-> a]
None == [t |-> "none"]

\* one entry of an object: key k (a string) and value v
Entry(k, v) == [k |-> k, v |-> v]

Digits == {"0", "1", "2", "3", "4", "5", "6", "7", "8", "9"}

DigitVal(c) ==
    CASE c = "0" -> 0 [] c = "1" -> 1 [] c = "2" -> 2 [] c = "3" -> 3
      [] c = "4" -> 4 [] c = "5" -> 5 [] c = "6" -> 6 [] c = "7" -> 7
      [] c = "8" -> 8 [] c = "9" -> 9

\* the characters the "." of a JavaScript regular expression does not match
LineTerminators == {"\n", "\r"}

(***************************************************************************)
(* toPrimitive                                                             *)
(***************************************************************************)
\* /^{{.*}}$/.test(s)
enclosedRegex(s) ==
    /\ Len(s) >= 4
    /\ s[1] = "{"
    /\ s[2] = "{"
    /\ s[Len(s) - 1] = "}"
    /\ s[Len(s)] = "}"
    /\ \A i \in 3..(Len(s) - 2) : s[i] \notin LineTerminators

\* /^\d+(\.\d+)?$/.test(s)
numberRegex(s) ==
    \E k \in 1..Len(s) :
        /\ \A i \in 1..k : s[i] \in Digits
        /\ \/ k = Len(s)
           \/ /\ k + 2 <= Len(s)
              /\ s[k + 1] = "."
              /\ \A i \in (k + 2)..Len(s) : s[i] \in Digits

RECURSIVE IntOf(_)
\* the value of a sequence of digits
IntOf(s) ==
    IF s = <<>> THEN 0
    ELSE 10 * IntOf(SubSeq(s, 1, Len(s) - 1)) + DigitVal(s[Len(s)])

RECURSIVE StripZeros(_)
\* a fraction's digits without the trailing zeros
StripZeros(s) ==
    IF s = <<>> THEN <<>>
    ELSE IF s[Len(s)] = "0" THEN StripZeros(SubSeq(s, 1, Len(s) - 1))
    ELSE s

\* +s for a string s that numberRegex accepts: the number, as its integer
\* part and the digits of its fraction
UnaryPlus(s) ==
    LET dots == {i \in 1..Len(s) : s[i] = "."}
        d == IF dots = {} THEN Len(s) + 1 ELSE CHOOSE i \in dots : TRUE
    IN Num(IntOf(SubSeq(s, 1, d - 1)), StripZeros(SubSeq(s, d + 1, Len(s))))

\* the primitive that the text between the braces stands for
parseStripped(strippedValue) ==
    IF numberRegex(strippedValue) THEN UnaryPlus(strippedValue)
    ELSE CASE strippedValue = <<"n", "u", "l", "l">> -> Null
           [] strippedValue = <<"u", "n", "d", "e", "f", "i", "n", "e", "d">> -> Undefined
           [] strippedValue = <<"t", "r", "u", "e">> -> Bool(TRUE)
           [] strippedValue = <<"f", "a", "l", "s", "e">> -> Bool(FALSE)
           [] OTHER -> Str(strippedValue)

toPrimitive(v) ==
    IF ~enclosedRegex(v) THEN Str(v)
    ELSE parseStripped(SubSeq(v, 3, Len(v) - 2))

(***************************************************************************)
(* Strings, keys and objects                                               *)
(***************************************************************************)
K_a == <<"a">>
K_b == <<"b">>
K_ab == <<"a", ".", "b">>
K_abcd == <<"a", ".", "b", ".", "c", ".", "d">>
K_and == <<"$", "a", "n", "d">>
K_gt == <<"$", "g", "t">>
K_eq == <<"$", "e", "q">>
K_ne == <<"$", "n", "e">>
K_isNull == <<"$", "i", "s", "N", "u", "l", "l">>
K_constructor == <<"c", "o", "n", "s", "t", "r", "u", "c", "t", "o", "r">>
K_valueOf == <<"v", "a", "l", "u", "e", "O", "f">>
K_toString == <<"t", "o", "S", "t", "r", "i", "n", "g">>
K_hasOwnProperty ==
    <<"h", "a", "s", "O", "w", "n", "P", "r", "o", "p", "e", "r", "t", "y">>
S_true == <<"t", "r", "u", "e">>
S_objectObject ==
    <<"[", "o", "b", "j", "e", "c", "t", " ", "O", "b", "j", "e", "c", "t", "]">>

RECURSIVE IndexKey(_)
\* the property name of array index i: its decimal digits
IndexKey(i) ==
    LET d == CHOOSE c \in Digits : DigitVal(c) = i % 10
    IN IF i < 10 THEN <<d>> ELSE IndexKey(i \div 10) \o <<d>>

\* Object.entries(x || []): the own enumerable properties of x, in order
ObjectEntries(x) ==
    CASE x.t = "obj" -> x.kv
      [] x.t = "arr" -> [i \in 1..Len(x.a) |-> Entry(IndexKey(i - 1), x.a[i])]
      [] x.t = "str" -> [i \in 1..Len(x.s) |-> Entry(IndexKey(i - 1), Str(<<x.s[i]>>))]
      [] OTHER -> <<>>

\* obj[k] = v on the entries kv: replaces the value of k, or appends k
ObjSet(kv, k, v) ==
    IF \E i \in 1..Len(kv) : kv[i].k = k
    THEN [i \in 1..Len(kv) |-> IF kv[i].k = k THEN Entry(k, v) ELSE kv[i]]
    ELSE Append(kv, Entry(k, v))

RECURSIVE ObjSpread(_, _)
\* { ...kv, ...more }
ObjSpread(kv, more) ==
    IF more = <<>> THEN kv
    ELSE ObjSpread(ObjSet(kv, Head(more).k, Head(more).v), Tail(more))

HasKey(x, k) == x.t = "obj" /\ \E i \in 1..Len(x.kv) : x.kv[i].k = k

\* x[k] of an object that has the key k
Get(x, k) == x.kv[CHOOSE i \in 1..Len(x.kv) : x.kv[i].k = k].v

Throw(e) == [t |-> "throw", e |-> e]
IsThrow(x) == x.t = "throw"

(***************************************************************************)
(* decodeURIComponent                                                      *)
(***************************************************************************)
\* the escapes the model's strings use; any other "%.." is malformed here
PercentTable ==
    { <<"2", "4", "$">>, <<"2", "E", ".">>, <<"2", "e", ".">>,
      <<"7", "B", "{">>, <<"7", "D", "}">>, <<"0", "A", "\n">>,
      <<"2", "5", "%">> }

\* the character c before the decoded rest, unless decoding the rest threw
Decoded(c, rest) == IF IsThrow(rest) THEN rest ELSE Str(<<c>> \o rest.s)

RECURSIVE decodeURIComponent(_)
\* the decoded characters, or Throw("URIError") for a malformed escape
decodeURIComponent(s) ==
    IF s = <<>> THEN Str(<<>>)
    ELSE IF Head(s) # "%" THEN Decoded(Head(s), decodeURIComponent(Tail(s)))
    ELSE IF Len(s) < 3 \/ ~\E e \in PercentTable : e[1] = s[2] /\ e[2] = s[3]
    THEN Throw("URIError")
    ELSE Decoded((CHOOSE e \in PercentTable : e[1] = s[2] /\ e[2] = s[3])[3],
                 decodeURIComponent(SubSeq(s, 4, Len(s))))

\* toPrimitive(d) of a decoded string d, unless decoding threw
toPrimitiveOf(d) == IF IsThrow(d) THEN d ELSE toPrimitive(d.s)

\* toPrimitive(decodeURIComponent(s))
castString(s) == toPrimitiveOf(decodeURIComponent(s))

(***************************************************************************)
(* customOperators and castQueryConditions                                 *)
(***************************************************************************)
\* customOperators.$isNull
isNullOperator(v) ==
    IF v \in {Str(S_true), Bool(TRUE), Str(<<"1">>), Num(1, <<>>)}
    THEN <<Entry(K_eq, Null)>>
    ELSE <<Entry(K_ne, Null)>>

\* whether customOperators[field] is truthy: customOperators is an object
\* literal, so besides its own $isNull the lookup finds what it inherits from
\* Object.prototype
customOperatorsHas(field) ==
    field \in {K_isNull, K_constructor, K_valueOf, K_toString, K_hasOwnProperty}

\* the entries that { ...customOperators[field](v) } spreads
customOperatorsCall(field, v) ==
    CASE field = K_isNull -> isNullOperator(v)
      \* Object(v): v itself when it is an object, else a wrapper of it
      [] field = K_constructor -> ObjectEntries(v)
      \* Object.prototype.valueOf.call(customOperators): customOperators
      [] field = K_valueOf -> <<Entry(K_isNull, Fn)>>
      \* "[object Object]"
      [] field = K_toString -> ObjectEntries(Str(S_objectObject))
      \* a boolean: nothing to spread
      [] field = K_hasOwnProperty -> <<>>

\* !field.startsWith("$") ? field.split(".").length : 0
fieldDepth(field) ==
    IF Len(field) >= 1 /\ field[1] = "$" THEN 0
    ELSE 1 + Cardinality({i \in 1..Len(field) : field[i] = "."})

\* a comparison that lets a key pass with one segment too many
omitFieldBeyondOneMore(field, remainingDepth) == fieldDepth(field) > remainingDepth + 1

\* the keys which pass the remainingDepth are omitted
omitField(field, remainingDepth) == fieldDepth(field) > remainingDepth

\* the array of a mapped first item and the mapped rest, or the first throw
Mapped(first, rest) ==
    IF IsThrow(first) THEN first
    ELSE IF IsThrow(rest) THEN rest
    ELSE Arr(<<first>> \o rest.a)

RECURSIVE castQueryConditions(_, _)
RECURSIVE castLoop(_, _, _)
RECURSIVE castItems(_, _)
RECURSIVE castAssign(_, _, _, _)

\* value.map(item => ...): the casted items
castItems(items, depth) ==
    IF items = <<>> THEN Arr(<<>>)
    ELSE Mapped(IF Head(items).t = "str" THEN castString(Head(items).s)
                ELSE castQueryConditions(Head(items), depth),
                castItems(Tail(items), depth))

\* castedConditions[field] = casted for the first entry, then the loop goes
\* on with the next entry; a throw ends the loop
castAssign(entries, castedConditions, remainingDepth, casted) ==
    IF IsThrow(casted) THEN casted
    ELSE castLoop(Tail(entries), ObjSet(castedConditions, Head(entries).k, casted),
                  remainingDepth)

\* the for loop over the entries, castedConditions being the object so far
castLoop(entries, castedConditions, remainingDepth) ==
    IF entries = <<>> THEN Obj(castedConditions)
    ELSE LET field == Head(entries).k
             val == Head(entries).v
             depth == remainingDepth - fieldDepth(field)
         IN IF omitField(field, remainingDepth)
            THEN castLoop(Tail(entries), castedConditions, remainingDepth)
            ELSE IF customOperatorsHas(field)
            THEN castLoop(Tail(entries),
                          ObjSpread(castedConditions, customOperatorsCall(field, val)),
                          remainingDepth)
            ELSE castAssign(entries, castedConditions, remainingDepth,
                            IF val.t = "arr" THEN castItems(val.a, depth)
                            ELSE IF val.t = "str" THEN castString(val.s)
                            ELSE castQueryConditions(val, depth))

castQueryConditions(conditions, remainingDepth) ==
    castLoop(ObjectEntries(conditions), <<>>, remainingDepth)

(***************************************************************************)
(* limitPopulateOptionsDepth                                               *)
(***************************************************************************)
\* a populate object: its path, its match and its nested populate list
PopulateOption(path, match, populate) ==
    [t |-> "populateOption", path |-> path, match |-> match, populate |-> populate]

RECURSIVE Split(_)
\* s.split("."): the segments between the dots
Split(s) ==
    LET dots == {i \in 1..Len(s) : s[i] = "."}
    IN IF dots = {} THEN <<s>>
       ELSE LET d == CHOOSE i \in dots : \A j \in dots : i <= j
            IN <<SubSeq(s, 1, d - 1)>> \o Split(SubSeq(s, d + 1, Len(s)))

RECURSIVE Join(_)
\* segments.join(".")
Join(segments) ==
    IF segments = <<>> THEN <<>>
    ELSE IF Len(segments) = 1 THEN segments[1]
    ELSE segments[1] \o <<".">> \o Join(Tail(segments))

\* a.slice(0, end)
SliceTo(a, end) ==
    LET e == IF end < 0 THEN (IF Len(a) + end < 0 THEN 0 ELSE Len(a) + end)
             ELSE IF end > Len(a) THEN Len(a) ELSE end
    IN SubSeq(a, 1, e)

Max(x, y) == IF x >= y THEN x ELSE y

\* whether a value is truthy
Truthy(x) ==
    CASE x.t = "str" -> x.s # <<>>
      [] x.t = "num" -> ~(x.i = 0 /\ x.f = <<>>)
      [] x.t = "bool" -> x.b
      [] x.t \in {"null", "undefined", "nan"} -> FALSE
      [] OTHER -> TRUE

\* the option with its match and populate replaced, or the first throw
Limited(option, match, populate) ==
    IF IsThrow(match) THEN match
    ELSE IF IsThrow(populate) THEN populate
    ELSE PopulateOption(option.path, match, populate)

\* path.slice(0, path.length - Math.max(0, path.length - remainingDepth))
limitPath(path, remainingDepth) ==
    SliceTo(path, Len(path) - Max(0, Len(path) - remainingDepth))

RECURSIVE limitPopulateOptionsDepth(_, _)
RECURSIVE limitPopulateMap(_, _)

\* the callback of populateOptions.map, over the options in order
limitPopulateMap(options, remainingDepth) ==
    IF options = <<>> THEN Arr(<<>>)
    ELSE Mapped(IF Head(options).t # "str"
                THEN Limited(Head(options),
                             IF Truthy(Head(options).match)
                             THEN castQueryConditions(Head(options).match, remainingDepth)
                             ELSE Head(options).match,
                             limitPopulateOptionsDepth(Head(options).populate,
                                                       remainingDepth - 1))
                ELSE Str(Join(limitPath(Split(Head(options).s), remainingDepth))),
                limitPopulateMap(Tail(options), remainingDepth))

limitPopulateOptionsDepth(populateOptions, remainingDepth) ==
    IF populateOptions.t # "arr" THEN Undefined
    ELSE limitPopulateMap(populateOptions.a, remainingDepth)

(***************************************************************************)
(* queryToOptions                                                          *)
(***************************************************************************)
DefaultMaxDepth == 3

NaN == [t |-> "nan"]

\* +x
ToNumber(x) ==
    CASE x.t = "num" -> x
      [] x.t = "str" -> IF numberRegex(x.s) THEN UnaryPlus(x.s)
                        ELSE IF x.s = <<>> THEN Num(0, <<>>) ELSE NaN
      [] x.t = "bool" -> Num(IF x.b THEN 1 ELSE 0, <<>>)
      [] x.t = "null" -> Num(0, <<>>)
      [] OTHER -> NaN

\* the http query: every property the code reads, Undefined when absent
EmptyQuery ==
    [t |-> "query", match |-> Undefined, addFields |-> Undefined,
     populate |-> Undefined,
     limit |-> Undefined, skip |-> Undefined, offset |-> Undefined,
     random |-> Undefined, sort |-> Undefined, select |-> Undefined,
     distinct |-> Undefined, custom |-> Undefined]

\* x || {}
OrEmpty(x) == IF Truthy(x) THEN x ELSE Obj(<<>>)

\* the options object, given its casted match, populate and custom
Options(query, skip, match, limited, custom) ==
       IF IsThrow(match) THEN match
       ELSE IF IsThrow(limited) THEN limited
       ELSE IF IsThrow(custom) THEN custom
       ELSE [t |-> "options",
             match |-> match,
             addFields |-> query.addFields,
             populate |-> limited,
             limit |-> IF Truthy(query.limit) THEN ToNumber(query.limit) ELSE Undefined,
             skip |-> IF Truthy(skip) THEN ToNumber(skip) ELSE Undefined,
             random |-> Bool(query.random \notin
                               {Str(<<"0">>), Str(<<"f", "a", "l", "s", "e">>), Undefined}),
             sort |-> IF query.sort.t = "arr" THEN query.sort ELSE Arr(<<>>),
             select |-> IF query.select.t = "arr" THEN query.select ELSE Arr(<<>>),
             distinct |-> query.distinct,
             custom |-> custom]

queryToOptions(query, cfg) ==
    LET maxDepth == IF cfg.t = "config" THEN cfg.maxDepth ELSE DefaultMaxDepth
        populate == IF query.populate.t \in {"undefined", "null"} THEN Undefined
                    ELSE IF query.populate.t = "arr" THEN query.populate
                    ELSE Arr(<<>>)
    IN Options(query,
               IF Truthy(query.skip) THEN query.skip ELSE query.offset,
               castQueryConditions(OrEmpty(query.match), maxDepth),
               limitPopulateOptionsDepth(populate, maxDepth),
               castQueryConditions(OrEmpty(query.custom), maxDepth))

(***************************************************************************)
(* JSON.parse, for the JSON texts of the x-query-options header: an object *)
(* of string, integer, null, boolean and object members, without white     *)
(* space                                                                   *)
(***************************************************************************)
Quote == "\""

\* the least element of a non-empty set of integers
Least(S) == CHOOSE i \in S : \A j \in S : i <= j

\* the literal lit starts at s[i]
LiteralAt(s, i, lit) == i + Len(lit) - 1 <= Len(s) /\ SubSeq(s, i, i + Len(lit) - 1) = lit

RECURSIVE ParseValue(_, _)
RECURSIVE ParseObject(_, _, _)
\* the value that starts at s[i]: a string, an integer, null, a boolean or an
\* object, and where it ends
ParseValue(s, i) ==
    IF i > Len(s) THEN [ok |-> FALSE]
    ELSE IF s[i] = Quote
    THEN LET close == {j \in (i + 1)..Len(s) : s[j] = Quote}
         IN IF close = {} THEN [ok |-> FALSE]
            ELSE [ok |-> TRUE, v |-> Str(SubSeq(s, i + 1, Least(close) - 1)),
                  next |-> Least(close) + 1]
    ELSE IF s[i] \in Digits
    THEN LET stop == {j \in (i + 1)..(Len(s) + 1) : j > Len(s) \/ s[j] \notin Digits}
         IN [ok |-> TRUE, v |-> Num(IntOf(SubSeq(s, i, Least(stop) - 1)), <<>>),
             next |-> Least(stop)]
    ELSE IF LiteralAt(s, i, <<"n", "u", "l", "l">>)
    THEN [ok |-> TRUE, v |-> Null, next |-> i + 4]
    ELSE IF LiteralAt(s, i, <<"t", "r", "u", "e">>)
    THEN [ok |-> TRUE, v |-> Bool(TRUE), next |-> i + 4]
    ELSE IF LiteralAt(s, i, <<"f", "a", "l", "s", "e">>)
    THEN [ok |-> TRUE, v |-> Bool(FALSE), next |-> i + 5]
    ELSE IF s[i] = "{" THEN ParseObject(s, i + 1, <<>>)
    ELSE [ok |-> FALSE]

\* the object whose members start at s[i], kv being the members so far
ParseObject(s, i, kv) ==
    IF i <= Len(s) /\ s[i] = "}" /\ kv = <<>>
    THEN [ok |-> TRUE, v |-> Obj(<<>>), next |-> i + 1]
    ELSE LET key == ParseValue(s, i)
         IN IF ~key.ok \/ key.v.t # "str" \/ key.next > Len(s) \/ s[key.next] # ":"
            THEN [ok |-> FALSE]
            ELSE LET val == ParseValue(s, key.next + 1)
                 IN IF ~val.ok \/ val.next > Len(s) THEN [ok |-> FALSE]
                    ELSE IF s[val.next] = ","
                    THEN ParseObject(s, val.next + 1, ObjSet(kv, key.v.s, val.v))
                    ELSE IF s[val.next] = "}"
                    THEN [ok |-> TRUE, v |-> Obj(ObjSet(kv, key.v.s, val.v)),
                          next |-> val.next + 1]
                    ELSE [ok |-> FALSE]

\* query[key] = v for the properties queryToOptions reads
SetProperty(query, key, v) ==
    CASE key = <<"l", "i", "m", "i", "t">> -> [query EXCEPT !.limit = v]
      [] key = <<"s", "k", "i", "p">> -> [query EXCEPT !.skip = v]
      [] key = <<"o", "f", "f", "s", "e", "t">> -> [query EXCEPT !.offset = v]
      [] key = <<"r", "a", "n", "d", "o", "m">> -> [query EXCEPT !.random = v]
      [] key = <<"m", "a", "t", "c", "h">> -> [query EXCEPT !.match = v]
      [] OTHER -> query

RECURSIVE ParseMembers(_, _, _)
\* the members from s[i] on, added to query
ParseMembers(s, i, query) ==
    LET key == ParseValue(s, i)
    IN IF ~key.ok \/ key.v.t # "str" \/ key.next > Len(s) \/ s[key.next] # ":"
       THEN Throw("SyntaxError")
       ELSE LET val == ParseValue(s, key.next + 1)
            IN IF ~val.ok \/ val.next > Len(s) THEN Throw("SyntaxError")
               ELSE IF s[val.next] = ","
               THEN ParseMembers(s, val.next + 1, SetProperty(query, key.v.s, val.v))
               ELSE IF s[val.next] = "}" /\ val.next = Len(s)
               THEN SetProperty(query, key.v.s, val.v)
               ELSE Throw("SyntaxError")

JSONparse(s) ==
    IF Len(s) < 2 \/ s[1] # "{" THEN Throw("SyntaxError")
    ELSE IF s = <<"{", "}">> THEN EmptyQuery
    ELSE ParseMembers(s, 2, EmptyQuery)

(***************************************************************************)
(* The QueryOptions decorator                                              *)
(***************************************************************************)
\* the express response of the execution context
Response == [t |-> "response"]

\* { ...options, request, response }
WithRequest(options, req) ==
    IF IsThrow(options) THEN options
    ELSE [t |-> "queryOptions", options |-> options, request |-> req,
          response |-> Response]

\* request.header["x-query-options"]: request.header is express's function
\* header(name), which has no property of that name
headerProperty(req) == Undefined

\* request.header("x-query-options")
headerCall(req) == req.header

\* the body of the decorator once the header options have been read
\* queryToOptions(query, config) with the request and response attached;
\* query is JSON.parse's result and may be its throw
optionsOf(query, req, cfg) ==
    IF IsThrow(query) THEN query ELSE WithRequest(queryToOptions(query, cfg), req)

\* the body of the decorator once the header options have been read
decorate(headerOptions, req, cfg) ==
    optionsOf(IF Truthy(headerOptions) THEN JSONparse(headerOptions.s) ELSE req.query,
              req, cfg)

(***************************************************************************)
(* Bounds and inputs                                                       *)
(***************************************************************************)
\* the longest text between the braces of a toPrimitive input
MaxInner == 3
\* the deepest nesting of keys around a leaf of a match input
MaxNest == 3
\* the largest configured maxDepth
MaxDepthBound == 1
\* the deepest nesting of populate objects in a populate input
MaxPopulateNest == 3

SeqsUpTo(S, n) == UNION {[1..k -> S] : k \in 0..n}

PrimitiveAlphabet == {"{", "}", "0", "1", ".", "a", "\n"}

InnerStrings ==
    SeqsUpTo(PrimitiveAlphabet, MaxInner)
        \cup { <<"n", "u", "l", "l">>, <<"t", "r", "u", "e">>,
               <<"f", "a", "l", "s", "e">>,
               <<"u", "n", "d", "e", "f", "i", "n", "e", "d">> }

PrimitiveInputs ==
    UNION { { r, <<"{", "{">> \o r \o <<"}", "}">>, <<"{", "{">> \o r \o <<"}">>,
              <<"{">> \o r \o <<"}", "}">> } : r \in InnerStrings }

S_x == <<"x">>

MatchLeaves ==
    { Str(S_x),
      Str(<<"{", "{", "1", "}", "}">>),
      Str(<<"%", "2", "4", "x">>),
      Str(<<"%">>),
      Num(7, <<>>),
      Bool(FALSE),
      Null,
      Obj(<<Entry(K_isNull, Str(S_true))>>),
      Obj(<<Entry(K_isNull, Bool(TRUE))>>),
      Obj(<<Entry(K_eq, Str(S_x)), Entry(K_isNull, Str(<<"0">>))>>),
      Obj(<<Entry(K_valueOf, Str(S_x))>>),
      Obj(<<Entry(K_abcd, Str(S_x)), Entry(K_b, Str(S_x))>>) }

Wrappers == {"a", "a.b", "$and", "$gt", "constructor"}

Wrap(w, v) ==
    CASE w = "a" -> Obj(<<Entry(K_a, v)>>)
      [] w = "a.b" -> Obj(<<Entry(K_ab, v)>>)
      [] w = "$and" -> Obj(<<Entry(K_and, Arr(<<v>>))>>)
      [] w = "$gt" -> Obj(<<Entry(K_gt, v)>>)
      [] w = "constructor" -> Obj(<<Entry(K_constructor, v)>>)

RECURSIVE Nest(_, _)
Nest(ws, leaf) == IF ws = <<>> THEN leaf ELSE Wrap(Head(ws), Nest(Tail(ws), leaf))

MatchInputs ==
    { Nest(ws, leaf) : ws \in SeqsUpTo(Wrappers, MaxNest), leaf \in MatchLeaves }

PopulatePaths ==
    { <<"p">>, <<"p", ".", "q">>, <<"p", ".", "q", ".", "r">>,
      <<"p", ".", "q", ".", "r", ".", "s">> }

RECURSIVE PopulateOptions(_)
\* the populate options with at most n objects nested in one another
PopulateOptions(n) ==
    { Str(path) : path \in PopulatePaths }
        \cup IF n = 0 THEN {}
             ELSE { PopulateOption(<<"p">>, m, pop) :
                      m \in {Undefined, Obj(<<Entry(K_ab, Str(S_x))>>)},
                      pop \in {Undefined}
                                \cup { Arr(<<o>>) : o \in PopulateOptions(n - 1) } }

PopulateInputs == { Arr(<<o>>) : o \in PopulateOptions(MaxPopulateNest) }

FlatQueries ==
    { [EmptyQuery EXCEPT !.limit = l, !.offset = o, !.random = r] :
        l \in {Undefined, Str(<<"7">>)},
        o \in {Undefined, Str(<<"2">>)},
        r \in {Undefined, Str(<<"0">>), Str(S_true)} }

Headers ==
    { Undefined,
      Str(<<>>),
      Str(<<"{", "}">>),
      Str(<<"{", Quote, "l", "i", "m", "i", "t", Quote, ":", Quote, "5", Quote, "}">>),
      Str(<<"{", Quote, "l", "i", "m", "i", "t", Quote, ":", "5", ",",
            Quote, "s", "k", "i", "p", Quote, ":", Quote, "1", Quote, "}">>),
      Str(<<"{", Quote, "l", "i", "m", "i", "t", Quote>>),
      Str(<<"{", Quote, "m", "a", "t", "c", "h", Quote, ":", "{", Quote, "a", Quote, ":",
            "7", "}", "}">>),
      Str(<<"{", Quote, "m", "a", "t", "c", "h", Quote, ":", "{", Quote, "a", Quote, ":",
            Quote, "%", "2", "4", "x", Quote, ",", Quote, "b", Quote, ":",
            "{", Quote, "$", "n", "e", Quote, ":", "n", "u", "l", "l", "}", "}", "}">>) }

Requests ==
    { [query |-> [EmptyQuery EXCEPT !.match = m], header |-> Undefined] :
        m \in MatchInputs }
      \cup { [query |-> [EmptyQuery EXCEPT !.populate = pop], header |-> Undefined] :
               pop \in PopulateInputs }
      \cup { [query |-> q, header |-> h] : q \in FlatQueries, h \in Headers }

Configs ==
    {Undefined} \cup { [t |-> "config", maxDepth |-> d] : d \in 0..MaxDepthBound }

(***************************************************************************)
(* Errors: HttpExceptionFilter.catch and ExceptionInterceptor.intercept    *)
(***************************************************************************)
BAD_REQUEST == 400
INTERNAL_SERVER_ERROR == 500
InternalServerErrorMessage ==
    Str(<<"I", "n", "t", "e", "r", "n", "a", "l", " ", "s", "e", "r", "v", "e", "r", " ",
          "e", "r", "r", "o", "r">>)

\* new HttpException(response, status): getResponse() is the response,
\* getStatus() the status, and the message is the response string
HttpException(response, status, stack) ==
    [t |-> "HttpException", response |-> response, status |-> status,
     message |-> response, stack |-> stack]

\* an Error that is not an HttpException
Error(message, stack) == [t |-> "Error", message |-> message, stack |-> stack]

\* exception instanceof HttpException
instanceofHttpException(e) == e.t = "HttpException"

\* response.status(status).json(body)
Answered(status, body) == [t |-> "answered", status |-> status, body |-> body]

\* the object { status, message, stack }; JSON leaves out an undefined stack
Json(status, message, stack) ==
    [t |-> "json", status |-> status, message |-> message, stack |-> stack]

\* a filter that shows the details whatever its argument
catchDetailed(e, details) ==
    IF instanceofHttpException(e) THEN Answered(e.status, e.response)
    ELSE Answered(INTERNAL_SERVER_ERROR,
                  Json(INTERNAL_SERVER_ERROR, e.message, e.stack))

\* src/source/filters/http-exception.filter.ts
catch(e, details) ==
    IF instanceofHttpException(e) THEN Answered(e.status, e.response)
    ELSE Answered(INTERNAL_SERVER_ERROR,
                  IF details THEN Json(INTERNAL_SERVER_ERROR, e.message, e.stack)
                  ELSE Json(INTERNAL_SERVER_ERROR, InternalServerErrorMessage,
                            Undefined))

\* exception.getStatus?.() ?? 500
statusOf(e) == IF instanceofHttpException(e) THEN e.status ELSE INTERNAL_SERVER_ERROR

\* the filter of part_014
catchPart014(e, details) ==
    Answered(statusOf(e),
             Json(statusOf(e),
                  IF statusOf(e) = INTERNAL_SERVER_ERROR /\ details = FALSE
                  THEN InternalServerErrorMessage ELSE e.message,
                  IF Truthy(e.stack) /\ details THEN e.stack ELSE Undefined))

\* the stack of an error that the interceptor creates
InterceptorStack == Str(<<"i">>)

\* err.stack || ""
stackOrEmpty(e) == IF Truthy(e.stack) THEN e.stack ELSE Str(<<>>)

\* an interceptor that rethrows what it caught
interceptRethrow(err, stack) == err

\* src/server/interceptors/exception.interceptor.ts
intercept(err, stack) ==
    IF stack
    THEN HttpException(stackOrEmpty(err),
                       IF instanceofHttpException(err) THEN err.status
                       ELSE BAD_REQUEST, InterceptorStack)
    ELSE IF instanceofHttpException(err)
    THEN HttpException(err.response, err.status, InterceptorStack)
    ELSE HttpException(err.message, BAD_REQUEST, InterceptorStack)

\* the interceptor of part_003
interceptPart003(err) ==
    IF instanceofHttpException(err) THEN err
    ELSE HttpException(err.message, BAD_REQUEST, InterceptorStack)

Statuses == {BAD_REQUEST, 403, 404, INTERNAL_SERVER_ERROR}
Messages == {Str(<<"m">>), Str(<<"s", "e", "c", "r", "e", "t">>)}
Stacks == {Undefined, Str(<<"a", "t">>)}
Exceptions ==
    { HttpException(m, st, sk) : m \in Messages, st \in Statuses, sk \in Stacks }
        \cup { Error(m, sk) : m \in Messages, sk \in Stacks }

(***************************************************************************)
(* CrudController: checkPermissions and the endpoints                      *)
(***************************************************************************)
FORBIDDEN == 403
\* stands for "The session does not meet the requirements for this endpoint"
ForbiddenMessage == Str(<<"f", "o", "r", "b", "i", "d", "d", "e", "n">>)

\* what a guard's canActivate returns: boolean | Promise<boolean> |
\* Observable<boolean>
Promise(b) == [t |-> "promise", b |-> b]
Observable(b) == [t |-> "observable", b |-> b]
CanActivateResults ==
    {Bool(b) : b \in BOOLEAN} \cup {Promise(b) : b \in BOOLEAN}
        \cup {Observable(b) : b \in BOOLEAN}

\* { guards, data }: a guard is given by what its canActivate returns
Permission(guards) == [t |-> "permission", guards |-> guards]

RECURSIVE checkGuards(_)
\* for (const guard of permission.guards) ... if (!canActivate) throw
checkGuards(guards) ==
    IF guards = <<>> THEN Undefined
    ELSE IF ~Truthy(Head(guards))
    THEN Throw(HttpException(ForbiddenMessage, FORBIDDEN, Undefined))
    ELSE checkGuards(Tail(guards))

\* if (!permission) return; then the guards
checkPermissions(permission) ==
    IF ~Truthy(permission) THEN Undefined ELSE checkGuards(permission.guards)

\* the permission an endpoint checks and the service method it returns
Endpoints ==
    { [name |-> "create", permission |-> "create", method |-> "create"],
      [name |-> "getAll", permission |-> "read", method |-> "find"],
      [name |-> "get", permission |-> "read", method |-> "get"],
      [name |-> "getMany", permission |-> "read", method |-> "getMany"],
      [name |-> "put", permission |-> "update", method |-> "put"],
      [name |-> "patch", permission |-> "update", method |-> "patch"],
      [name |-> "delete", permission |-> "delete", method |-> "delete"] }

EndpointNamed(name) == CHOOSE e \in Endpoints : e.name = name

\* the service method an endpoint invokes after a check that returned
invokedAfter(checked, method) == IF IsThrow(checked) THEN "none" ELSE method

\* what an endpoint throws after the check
thrownAfter(checked) == IF IsThrow(checked) THEN checked.e ELSE None

MaxGuards == 2
PermissionKinds == {"create", "read", "update", "delete"}
GuardLists == UNION { [1..n -> CanActivateResults] : n \in 0..MaxGuards }
PermissionInputs ==
    { [k \in PermissionKinds |-> IF k \in configured THEN Permission(guards)
                                                      ELSE Undefined] :
        configured \in SUBSET PermissionKinds, guards \in GuardLists }

(***************************************************************************)
(* lodash merge, as CrudService.find uses it                               *)
(***************************************************************************)
RECURSIVE mergeValue(_, _, _)
RECURSIVE mergeEntries(_, _)

\* the merged array: the items of the source are merged into the items at
\* the same index, the items past the source stay
mergeArray(objA, srcA) ==
    [i \in 1..Max(Len(objA), Len(srcA)) |->
        IF i > Len(srcA) THEN objA[i]
        ELSE IF i > Len(objA) THEN mergeValue(FALSE, Undefined, srcA[i])
        ELSE mergeValue(TRUE, objA[i], srcA[i])]

\* the array whose items are those of the index i of the source entries
IndexedEntries(srcKv, n) ==
    [i \in 1..n |->
        IF \E j \in 1..Len(srcKv) : srcKv[j].k = IndexKey(i - 1)
        THEN srcKv[CHOOSE j \in 1..Len(srcKv) : srcKv[j].k = IndexKey(i - 1)].v
        ELSE Undefined]

\* what merge leaves under a key: has tells whether the object has the key.
\* An array or object of the source is merged into the value of its kind (an
\* object also into an array, by its index keys), a primitive replaces the
\* value, and undefined leaves it.
mergeValue(has, objValue, srcValue) ==
    CASE srcValue.t = "arr" ->
           Arr(mergeArray(IF has /\ objValue.t = "arr" THEN objValue.a ELSE <<>>,
                          srcValue.a))
      [] srcValue.t = "obj" ->
           IF has /\ objValue.t = "arr"
           THEN Arr(mergeArray(objValue.a, IndexedEntries(srcValue.kv, Len(objValue.a))))
           ELSE Obj(mergeEntries(IF has /\ objValue.t = "obj" THEN objValue.kv ELSE <<>>,
                                 srcValue.kv))
      [] srcValue.t = "undefined" -> IF has THEN objValue ELSE Undefined
      [] OTHER -> srcValue

\* the entries kv after the source entries were merged into them
mergeEntries(kv, srcKv) ==
    IF srcKv = <<>> THEN kv
    ELSE mergeEntries(
             ObjSet(kv, Head(srcKv).k,
                    IF \E i \in 1..Len(kv) : kv[i].k = Head(srcKv).k
                    THEN mergeValue(TRUE, Get(Obj(kv), Head(srcKv).k), Head(srcKv).v)
                    ELSE mergeValue(FALSE, Undefined, Head(srcKv).v)),
             Tail(srcKv))

\* _merge(object, source) of two objects
merge(object, source) == Obj(mergeEntries(object.kv, source.kv))

(***************************************************************************)
(* CrudService: the schema, cast and castValue                             *)
(***************************************************************************)
K_or == <<"$", "o", "r">>
K_in == <<"$", "i", "n">>
K_regex == <<"$", "r", "e", "g", "e", "x">>
K_options == <<"$", "o", "p", "t", "i", "o", "n", "s">>
K_id == <<"_", "i", "d">>
K_owner == <<"o", "w", "n", "e", "r">>
K_team == <<"t", "e", "a", "m">>
K_name == <<"n", "a", "m", "e">>
K_age == <<"a", "g", "e">>

\* a field of schema.obj: whether its type is the String constructor, and
\* the schemaName of its type
SchemaField(typeIsString, schemaName) ==
    [typeIsString |-> typeIsString, schemaName |-> schemaName]

\* schema.obj: owner and team of a type without schemaName, name declared
\* { type: String }, age of the schema type Number
SchemaKeys == <<K_owner, K_team, K_name, K_age>>
Schema(key) ==
    CASE key = K_name -> SchemaField(TRUE, Undefined)
      [] key = K_age -> SchemaField(FALSE, Str(<<"N", "u", "m", "b", "e", "r">>))
      [] OTHER -> SchemaField(FALSE, Undefined)
InSchema(key) == \E i \in 1..Len(SchemaKeys) : SchemaKeys[i] = key

\* the schemaName that cast finds for a key: ObjectId for _id, that of the
\* field for a key of the schema, none for any other and for a dotted key
schemaNameOf(key) ==
    IF key = K_id THEN Str(<<"O", "b", "j", "e", "c", "t", "I", "d">>)
    ELSE IF InSchema(key) THEN Schema(key).schemaName
    ELSE Undefined

\* value + ""
StringOf(x) ==
    CASE x.t = "str" -> x
      [] x.t = "num" -> Str(IndexKey(x.i) \o (IF x.f = <<>> THEN <<>> ELSE <<".">> \o x.f))
      [] x.t = "bool" -> Str(IF x.b THEN S_true ELSE <<"f", "a", "l", "s", "e">>)
      [] x.t = "null" -> Str(<<"n", "u", "l", "l">>)
      [] x.t = "undefined" -> Str(<<"u", "n", "d", "e", "f", "i", "n", "e", "d">>)
      [] x.t = "nan" -> Str(<<"N", "a", "N">>)
      [] x.t = "arr" -> Str(<<>>)
      [] OTHER -> Str(S_objectObject)

\* castValue: objectid(value) throws for a string that is no id, as every
\* string here, and the value is returned as it is; Date is not modelled
castValue(v, type) ==
    CASE type.s = <<"S", "t", "r", "i", "n", "g">> -> StringOf(v)
      [] type.s = <<"N", "u", "m", "b", "e", "r">> -> ToNumber(v)
      [] type.s = <<"B", "o", "o", "l", "e", "a", "n">> ->
           Bool(v \in {Bool(TRUE), Num(1, <<>>), Str(S_true), Str(<<"1">>)})
      [] OTHER -> v

RECURSIVE cast(_)
\* the value that cast leaves under a key
castKey(key, v) ==
    IF key # <<>> /\ Head(key) = "$"
    THEN IF v.t = "arr" THEN Arr([i \in 1..Len(v.a) |-> cast(v.a[i])]) ELSE cast(v)
    ELSE IF Truthy(schemaNameOf(key))
    THEN IF v.t = "arr"
         THEN Arr([i \in 1..Len(v.a) |-> castValue(v.a[i], schemaNameOf(key))])
         ELSE castValue(v, schemaNameOf(key))
    ELSE v

\* this.cast(conditions): only the keys of an object are cast; conditions
\* that are null or undefined, for which Object.keys throws, do not occur
cast(conditions) ==
    IF conditions.t = "obj"
    THEN Obj([i \in 1..Len(conditions.kv) |->
                 Entry(conditions.kv[i].k, castKey(conditions.kv[i].k, conditions.kv[i].v))])
    ELSE conditions

(***************************************************************************)
(* CrudController.queryToConditions of part_016                            *)
(***************************************************************************)
RECURSIVE SplitComma(_)
\* s.split(",")
SplitComma(s) ==
    IF \A i \in 1..Len(s) : s[i] # "," THEN <<s>>
    ELSE <<SubSeq(s, 1, (CHOOSE i \in 1..Len(s) :
                             s[i] = "," /\ \A j \in 1..(i - 1) : s[j] # ",") - 1)>>
             \o SplitComma(SubSeq(s, (CHOOSE i \in 1..Len(s) :
                                         s[i] = "," /\ \A j \in 1..(i - 1) : s[j] # ",") + 1,
                                  Len(s)))

\* { [key]: v }
Single(key, v) == Obj(<<Entry(key, v)>>)

\* the keyConditions of a key and its value
keyConditions(key, v) ==
    (IF InSchema(key) /\ Schema(key).typeIsString
     THEN <<Single(key, Obj(<<Entry(K_regex, v), Entry(K_options, Str(<<"i">>))>>))>>
     ELSE <<>>)
      \o (IF ToNumber(v) # NaN THEN <<Single(key, ToNumber(v))>> ELSE <<>>)
      \o <<Single(key, v)>>

\* the conditions of a condition pair: { $or: keyConditions } for every key
pairConditions(conditionPair) ==
    [i \in 1..Len(conditionPair) |->
        Single(K_or, Arr(keyConditions(conditionPair[i].k, conditionPair[i].v)))]

\* the scope of a search
searchScopeOf(query) ==
    IF Truthy(query.searchScope) THEN SplitComma(query.searchScope.s)
    ELSE <<K_id>> \o SchemaKeys

RECURSIVE searchOptionsOf(_, _)
\* searchOptions[key] = query.search for every key of the scope
searchOptionsOf(scope, search) ==
    IF scope = <<>> THEN <<>>
    ELSE ObjSet(searchOptionsOf(SubSeq(scope, 1, Len(scope) - 1), search),
                scope[Len(scope)], search)

\* an empty list of conditions becomes [{}]
orEmptyCondition(conditions) ==
    IF conditions = <<>> THEN <<Obj(<<>>)>> ELSE conditions

\* conditions with the search under $and and the filter under $or
queryToConditionsSwapped(query) ==
    Obj(<<Entry(K_and,
                Arr(orEmptyCondition(pairConditions(
                        IF Truthy(query.search)
                        THEN searchOptionsOf(searchScopeOf(query), query.search)
                        ELSE <<>>)))),
          Entry(K_or,
                Arr(orEmptyCondition(pairConditions(OrEmpty(query.filter).kv))))>>)

\* queryToConditions(query): { $or, $and }
queryToConditions(query) ==
    Obj(<<Entry(K_or,
                Arr(orEmptyCondition(pairConditions(
                        IF Truthy(query.search)
                        THEN searchOptionsOf(searchScopeOf(query), query.search)
                        ELSE <<>>)))),
          Entry(K_and,
                Arr(orEmptyCondition(pairConditions(OrEmpty(query.filter).kv))))>>)

(***************************************************************************)
(* The collection and the conditions a document matches                    *)
(***************************************************************************)
\* s.includes(p)
Includes(s, p) ==
    \E i \in 1..(Len(s) - Len(p) + 1) : SubSeq(s, i, i + Len(p) - 1) = p

\* a value of a document against an operator of a condition
operatorMatches(dv, op, arg) ==
    CASE op = K_eq -> dv = arg
      [] op = K_ne -> dv # arg
      [] op = K_in -> arg.t = "arr" /\ \E i \in 1..Len(arg.a) : dv = arg.a[i]
      [] op = K_regex -> dv.t = "str" /\ arg.t = "str" /\ Includes(dv.s, arg.s)
      [] op = K_options -> TRUE
      [] OTHER -> FALSE

\* a value of a document against the condition on its field: an object of
\* operators, or a value to be equal to
fieldMatches(dv, v) ==
    IF v.t = "obj"
    THEN /\ v.kv # <<>>
         /\ \A i \in 1..Len(v.kv) : operatorMatches(dv, v.kv[i].k, v.kv[i].v)
    ELSE dv = v

RECURSIVE matches(_, _)
\* collection.find(conditions) returns the document: every key of the
\* conditions holds, $and of all and $or of some of its items
matches(doc, conditions) ==
    /\ conditions.t = "obj"
    /\ \A i \in 1..Len(conditions.kv) :
         LET key == conditions.kv[i].k
             v == conditions.kv[i].v
         IN CASE key = K_and ->
                   v.t = "arr" /\ v.a # <<>>
                       /\ \A j \in 1..Len(v.a) : matches(doc, v.a[j])
              [] key = K_or ->
                   v.t = "arr" /\ \E j \in 1..Len(v.a) : matches(doc, v.a[j])
              [] key # <<>> /\ Head(key) = "$" -> FALSE
              [] OTHER -> HasKey(doc, key) /\ fieldMatches(Get(doc, key), v)

(***************************************************************************)
(* CrudService.find                                                        *)
(***************************************************************************)
\* the request: onFindRequest is overridden by the service of the model, and
\* authorization is the array of conditions it returns for the request
Request(authorization) == [t |-> "request", authorization |-> authorization]

\* await this.onFindRequest(mongoRequest.request)
onFindRequest(req) == req.authorization

\* { filters, request }
MongoRequest(filters, req) == [t |-> "mongoRequest", filters |-> filters, request |-> req]

\* the conditions with the authorization conditions merged in
withAuthorization(merged, req) ==
    IF Truthy(req)
    THEN cast(merge(merged,
                    Single(K_and, Arr(<<Obj(<<>>)>> \o onFindRequest(req)))))
    ELSE merged

\* the conditions that find hands to collection.countDocuments and
\* collection.find
findConditionsOf(conds, mongoReq) ==
    withAuthorization(cast(merge(conds, OrEmpty(mongoReq.filters))), mongoReq.request)

\* the documents of the collection
U == Str(<<"u">>)
V == Str(<<"v">>)
T == Str(<<"t">>)
S_5 == Str(<<"5">>)
Document(owner, team, name, age) ==
    Obj(<<Entry(K_owner, owner), Entry(K_team, team), Entry(K_name, name),
          Entry(K_age, age)>>)
Documents ==
    { Document(o, t, n, a) :
        o \in {U, V}, t \in {T, Str(S_x)}, n \in {S_5, Str(S_x)},
        a \in {Num(5, <<>>), Num(6, <<>>)} }

RECURSIVE naturalOrder(_)
\* the documents in the order in which the collection stores them
naturalOrder(S) ==
    IF S = {} THEN <<>>
    ELSE <<CHOOSE d \in S : TRUE>> \o naturalOrder(S \ {CHOOSE d \in S : TRUE})

RECURSIVE matching(_, _)
\* the documents of a sequence that match the conditions, in their order
matching(docs, conds) ==
    IF docs = <<>> THEN <<>>
    ELSE IF matches(Head(docs), conds) THEN <<Head(docs)>> \o matching(Tail(docs), conds)
    ELSE matching(Tail(docs), conds)

\* collection.countDocuments(conditions)
countDocuments(conds) == Cardinality({ d \in Documents : matches(d, conds) })

\* { skip, limit } of mongoRequest.options: numbers, or Undefined
FindOptions(skip, limit) == [t |-> "findOptions", skip |-> skip, limit |-> limit]

\* the cursor of the driver: a skip that is not given is 0, a limit that is
\* not given or 0 is no limit
cursor(docs, skip, limit) ==
    SubSeq(docs, (IF skip = Undefined THEN 0 ELSE skip.i) + 1,
           IF limit = Undefined \/ limit.i = 0
              \/ (IF skip = Undefined THEN 0 ELSE skip.i) + limit.i > Len(docs)
           THEN Len(docs)
           ELSE (IF skip = Undefined THEN 0 ELSE skip.i) + limit.i)

\* the documents of the collection in their natural order
DocumentOrder == naturalOrder(Documents)

\* toArray(): the documents of the cursor
toArray(docs) == { docs[i] : i \in 1..Len(docs) }

\* a find that limits the documents of the collection, whatever they match
collectionFindAny(conds, options) ==
    toArray(cursor(DocumentOrder, options.skip, options.limit))

\* collection.find(conditions, { skip, limit }).toArray()
collectionFind(conds, options) ==
    toArray(cursor(matching(DocumentOrder, conds), options.skip, options.limit))

\* response.header("X-total-count", numberOfDocuments.toString()), for a
\* request with a context
totalCountHeader(conds, req, ctx) ==
    IF Truthy(req) /\ ctx THEN Str(IndexKey(countDocuments(conds))) ELSE None

\* no options, a limit, and a skip with a limit
FindOptionInputs ==
    { FindOptions(Undefined, Undefined),
      FindOptions(Undefined, Num(2, <<>>)),
      FindOptions(Num(1, <<>>), Num(2, <<>>)) }

MaxFilterKeys == 2

\* the arrays that onFindRequest returns
AuthorizationInputs ==
    { <<>>,
      <<Single(K_owner, U)>>,
      <<Single(K_owner, U), Single(K_team, T)>>,
      <<Single(K_owner, Single(K_in, Arr(<<U>>)))>>,
      <<Single(K_or, Arr(<<Single(K_owner, U)>>))>>,
      <<Single(K_or, Arr(<<Single(K_owner, U), Single(K_team, T)>>))>> }

RequestInputs == {Undefined} \cup { Request(a) : a \in AuthorizationInputs }

ConditionInputs == { Obj(<<>>), Single(K_owner, V), Single(K_age, S_5) }

FilterInputs ==
    { Undefined,
      Single(K_name, Str(S_x)),
      Single(K_and, Arr(<<Single(K_name, Str(S_x))>>)),
      Single(K_and, Arr(<<Obj(<<>>), Single(K_owner, Single(K_in, Arr(<<U, V>>)))>>)),
      Single(K_and, Arr(<<Obj(<<>>), Single(K_or, Arr(<<Single(K_name, S_5),
                                                        Single(K_name, Str(S_x))>>))>>)) }

\* the http query: search, searchScope and filter
HttpQuery(search, searchScope, filter) ==
    [t |-> "query", search |-> search, searchScope |-> searchScope, filter |-> filter]

FilterKeys == <<K_name, K_age, K_owner>>
FilterValues == {S_5, Str(S_x), V}

\* the filters of at most n keys, in the order of FilterKeys
RECURSIVE FiltersFrom(_, _)
FiltersFrom(i, n) ==
    IF i > Len(FilterKeys) \/ n = 0 THEN {<<>>}
    ELSE FiltersFrom(i + 1, n)
           \cup { <<Entry(FilterKeys[i], v)>> \o rest :
                    v \in FilterValues, rest \in FiltersFrom(i + 1, n - 1) }

HttpQueries ==
    { HttpQuery(search[1], search[2], IF kv = <<>> THEN Undefined ELSE Obj(kv)) :
        search \in { <<Undefined, Undefined>>, <<Str(S_x), Undefined>>,
                     <<S_5, Str(<<"n", "a", "m", "e", ",", "a", "g", "e">>)>> },
        kv \in FiltersFrom(1, MaxFilterKeys) }

(***************************************************************************)
(* The response interceptors: pagination, filter, sort and pick            *)
(***************************************************************************)
\* the characters of the strings below in the order of their char codes
CharOrder ==
    <<"-", ".", "0", "1", "2", "3", "4", "5", "6", "7", "8", "9",
      "A", "B", "C", "D", "E", "F", "G", "H", "I", "J", "K", "L", "M",
      "N", "O", "P", "Q", "R", "S", "T", "U", "V", "W", "X", "Y", "Z",
      "[", "]",
      "a", "b", "c", "d", "e", "f", "g", "h", "i", "j", "k", "l", "m",
      "n", "o", "p", "q", "r", "s", "t", "u", "v", "w", "x", "y", "z">>

CharCode(c) == CHOOSE i \in 1..Len(CharOrder) : CharOrder[i] = c

UpperCase == SubSeq(CharOrder, 13, 38)
LowerCase == SubSeq(CharOrder, 41, 66)

\* s.toLowerCase()
toLowerCase(s) ==
    [i \in 1..Len(s) |->
        IF \E j \in 1..Len(UpperCase) : UpperCase[j] = s[i]
        THEN LowerCase[CHOOSE j \in 1..Len(UpperCase) : UpperCase[j] = s[i]]
        ELSE s[i]]

\* the queryParams of the request: every parameter an interceptor reads
QueryParams(offset, limit, filter, sort, pick) ==
    [t |-> "queryParams", offset |-> offset, limit |-> limit, filter |-> filter,
     sort |-> sort, pick |-> pick]

\* what reaches the client: the value and the X-total-count header, if set
Emitted(v, totalCount) == [t |-> "emitted", value |-> v, totalCount |-> totalCount]

RECURSIVE lodashGetPath(_, _, _)
\* _get(object, path, defaultValue) along the segments of the path
lodashGetPath(object, segments, defaultValue) ==
    IF segments = <<>>
    THEN IF object = Undefined THEN defaultValue ELSE object
    ELSE IF HasKey(object, Head(segments))
         THEN lodashGetPath(Get(object, Head(segments)), Tail(segments), defaultValue)
         ELSE defaultValue

lodashGet(object, path, defaultValue) == lodashGetPath(object, Split(path), defaultValue)

\* [undefined, null].indexOf(x) !== -1
isNil(x) == x.t \in {"undefined", "null"}

\* +x of a query parameter, truncated as slice truncates its arguments:
\* an integer, or NaN
integerOf(x) ==
    IF x.t = "str" /\ Len(x.s) >= 2 /\ x.s[1] = "-" /\ numberRegex(Tail(x.s))
    THEN Num(0 - UnaryPlus(Tail(x.s)).i, <<>>)
    ELSE IF ToNumber(x).t = "num" THEN Num(ToNumber(x).i, <<>>) ELSE NaN

\* +x || d
numberOr(x, d) == IF integerOf(x).t = "num" /\ integerOf(x).i # 0 THEN integerOf(x).i ELSE d

\* the index that slice makes of a relative index
relativeIndex(k, len) ==
    IF k < 0 THEN (IF len + k < 0 THEN 0 ELSE len + k)
    ELSE IF k > len THEN len ELSE k

\* a.slice(start, end)
slice(a, start, end) ==
    SubSeq(a, relativeIndex(start, Len(a)) + 1, relativeIndex(end, Len(a)))

\* PaginationInterceptor.intercept on the value of the handler
paginate(v, offset, limit) ==
    IF isNil(offset) /\ isNil(limit) THEN Emitted(v, None)
    ELSE IF v.t = "arr"
         THEN Emitted(Arr(slice(v.a, numberOr(offset, 0),
                                numberOr(offset, 0) + numberOr(limit, Len(v.a)))),
                      Num(Len(v.a), <<>>))
         ELSE Emitted(v, None)

RECURSIVE itemToString(_)
\* itemValue.toString()
itemToString(x) ==
    IF x.t = "arr"
    THEN IF x.a = <<>> THEN <<>>
         ELSE IF Len(x.a) = 1 THEN itemToString(x.a[1])
         ELSE itemToString(x.a[1]) \o <<",">> \o itemToString(Arr(Tail(x.a)))
    ELSE StringOf(x).s

\* filter[filterKey] = filter[filterKey].toLowerCase() for every key
lowerFilter(filter) ==
    Obj([i \in 1..Len(ObjectEntries(filter)) |->
            Entry(ObjectEntries(filter)[i].k,
                  Str(toLowerCase(ObjectEntries(filter)[i].v.s)))])

\* one filter key against the item
filterKeyValid(itemValue, match) ==
    /\ ~isNil(itemValue)
    /\ Includes(toLowerCase(itemToString(itemValue)), match.s)

\* valid: the item matches all provided filters
itemValid(item, filter) ==
    \A i \in 1..Len(filter.kv) :
        filterKeyValid(lodashGet(item, filter.kv[i].k, Undefined), filter.kv[i].v)

RECURSIVE filterLoopSkipping(_, _, _)
\* the loop over the items without the decrement of i after a splice
filterLoopSkipping(a, i, filter) ==
    IF i > Len(a) THEN a
    ELSE IF itemValid(a[i], filter) THEN filterLoopSkipping(a, i + 1, filter)
    ELSE filterLoopSkipping(SubSeq(a, 1, i - 1) \o SubSeq(a, i + 1, Len(a)), i + 1, filter)

RECURSIVE filterLoop(_, _, _)
\* for (let i = 0; i < value.length; i++): an invalid item is spliced out
\* and i is decremented, so the next item is looked at under the same i
filterLoop(a, i, filter) ==
    IF i > Len(a) THEN a
    ELSE IF itemValid(a[i], filter) THEN filterLoop(a, i + 1, filter)
    ELSE filterLoop(SubSeq(a, 1, i - 1) \o SubSeq(a, i + 1, Len(a)), i, filter)

\* FilterInterceptor.intercept on the value of the handler
filterValue(v, filter) ==
    IF isNil(filter) THEN Emitted(v, None)
    ELSE IF v.t = "arr" THEN Emitted(Arr(filterLoop(v.a, 1, lowerFilter(filter))), None)
    ELSE Emitted(v, None)

\* -Infinity, the default of _get in the comparator
NegInfinity == [t |-> "-Infinity"]

RECURSIVE stringGreater(_, _)
\* s > p on two strings: by the char codes, a proper prefix being smaller
stringGreater(s, p) ==
    IF s = <<>> THEN FALSE
    ELSE IF p = <<>> THEN TRUE
    ELSE IF Head(s) = Head(p) THEN stringGreater(Tail(s), Tail(p))
    ELSE CharCode(Head(s)) > CharCode(Head(p))

\* x > y on two numbers, either of which may be -Infinity or NaN
numberGreater(x, y) ==
    IF x.t = "nan" \/ y.t = "nan" \/ x.t = "-Infinity" THEN FALSE
    ELSE IF y.t = "-Infinity" THEN TRUE
    ELSE x.i > y.i \/ (x.i = y.i /\ stringGreater(x.f, y.f))

\* the number that > makes of an operand
operandNumber(x) == IF x.t = "-Infinity" THEN x ELSE ToNumber(x)

\* valueA > valueB
greaterThan(valueA, valueB) ==
    IF valueA.t = "str" /\ valueB.t = "str" THEN stringGreater(valueA.s, valueB.s)
    ELSE numberGreater(operandNumber(valueA), operandNumber(valueB))

\* an undefined value next to a string becomes the empty string
emptyIfUndefined(x, other) ==
    IF other.t = "str" /\ x = NegInfinity THEN Str(<<>>) ELSE x

\* set to lowercase if both values are strings
lowerIfStrings(x, other) ==
    IF x.t = "str" /\ other.t = "str" THEN Str(toLowerCase(x.s)) ELSE x

\* the comparison of two values exactly as they are: no lowercase
valueCompareCased(valueA, valueB, desc) ==
    IF valueA # valueB
    THEN (IF greaterThan(valueA, valueB) THEN 1 ELSE -1) * desc
    ELSE 0

\* the position change for one field, 0 when the values do not differ
valueCompare(valueA, valueB, desc) ==
    IF lowerIfStrings(valueA, valueB) # lowerIfStrings(valueB, valueA)
    THEN (IF greaterThan(lowerIfStrings(valueA, valueB), lowerIfStrings(valueB, valueA))
          THEN 1 ELSE -1) * desc
    ELSE 0

\* the field without its hyphen
cleanse(field) == IF field # <<>> /\ Head(field) = "-" THEN Tail(field) ELSE field

\* -1 for a field that starts with a hyphen
descOf(field) == IF field # <<>> /\ Head(field) = "-" THEN -1 ELSE 1

\* one field of the comparator
fieldCompare(a, b, field) ==
    valueCompare(
        emptyIfUndefined(lodashGet(a, cleanse(field), NegInfinity),
                         lodashGet(b, cleanse(field), NegInfinity)),
        emptyIfUndefined(lodashGet(b, cleanse(field), NegInfinity),
                         lodashGet(a, cleanse(field), NegInfinity)),
        descOf(field))

RECURSIVE compareFn(_, _, _)
\* the comparator handed to value.sort: the first field that differs decides
compareFn(a, b, sortFields) ==
    IF sortFields = <<>> THEN 0
    ELSE IF fieldCompare(a, b, Head(sortFields)) # 0
         THEN fieldCompare(a, b, Head(sortFields))
         ELSE compareFn(a, b, Tail(sortFields))

RECURSIVE insertSorted(_, _, _)
\* x inserted behind every item of a sorted array that is not greater
insertSorted(sorted, x, sortFields) ==
    IF sorted = <<>> THEN <<x>>
    ELSE IF compareFn(sorted[Len(sorted)], x, sortFields) > 0
         THEN Append(insertSorted(SubSeq(sorted, 1, Len(sorted) - 1), x, sortFields),
                     sorted[Len(sorted)])
         ELSE Append(sorted, x)

RECURSIVE arraySort(_, _)
\* Array.prototype.sort with the comparator: a stable sort (ES2019); the
\* comparator is consistent on strings, numbers and missing values, and
\* on those every stable sort returns this array
arraySort(a, sortFields) ==
    IF a = <<>> THEN <<>>
    ELSE insertSorted(arraySort(SubSeq(a, 1, Len(a) - 1), sortFields), a[Len(a)], sortFields)

\* SortInterceptor.intercept on the value of the handler
sortValue(v, sort) ==
    IF isNil(sort) THEN Emitted(v, None)
    ELSE IF v.t = "arr" THEN Emitted(Arr(arraySort(v.a, SplitComma(sort.s))), None)
    ELSE Emitted(v, None)

TypeError == Throw("TypeError")

RECURSIVE unique(_)
\* the elements of a sequence in the order of their first occurrence
unique(s) ==
    IF s = <<>> THEN <<>>
    ELSE IF \E i \in 1..(Len(s) - 1) : s[i] = s[Len(s)]
         THEN unique(SubSeq(s, 1, Len(s) - 1))
         ELSE Append(unique(SubSeq(s, 1, Len(s) - 1)), s[Len(s)])

\* attribute.includes(".")
isNested(attribute) == \E i \in 1..Len(attribute) : attribute[i] = "."

\* Array.from(attributeSet): the key of every attribute
attributeKeys(attributes) ==
    unique([i \in 1..Len(attributes) |-> Head(Split(attributes[i]))])

RECURSIVE selectNested(_)
\* the attributes that contain nested targets
selectNested(attributes) ==
    IF attributes = <<>> THEN <<>>
    ELSE IF isNested(Head(attributes))
         THEN <<Head(attributes)>> \o selectNested(Tail(attributes))
         ELSE selectNested(Tail(attributes))

\* Object.keys(nestedAttributes)
nestedKeys(attributes) == attributeKeys(selectNested(attributes))

RECURSIVE nestedAttributes(_, _)
\* nestedAttributes[key]: what follows the key in its nested attributes
nestedAttributes(attributes, key) ==
    IF attributes = <<>> THEN <<>>
    ELSE IF isNested(Head(attributes)) /\ Head(Split(Head(attributes))) = key
         THEN <<Join(Tail(Split(Head(attributes))))>> \o nestedAttributes(Tail(attributes), key)
         ELSE nestedAttributes(Tail(attributes), key)

\* value[key]
property(v, key) == IF HasKey(v, key) THEN Get(v, key) ELSE Undefined

RECURSIVE lodashPickEntries(_, _)
lodashPickEntries(object, paths) ==
    IF paths = <<>> THEN <<>>
    ELSE IF HasKey(object, Head(paths))
         THEN <<Entry(Head(paths), Get(object, Head(paths)))>>
                  \o lodashPickEntries(object, Tail(paths))
         ELSE lodashPickEntries(object, Tail(paths))

\* _pick(object, paths): the paths that the object has, and {} for a value
\* that has none of them
lodashPick(object, paths) == Obj(lodashPickEntries(object, paths))

\* value[key] = picked: a property of an object; on an array a property
\* that is no index, which leaves the items as they are; on undefined and
\* null a TypeError, and in strict mode on a primitive too
assignProperty(v, key, picked) ==
    IF IsThrow(picked) THEN picked
    ELSE CASE v.t = "obj" -> Obj(ObjSet(v.kv, key, picked))
           [] v.t = "arr" -> v
           [] OTHER -> TypeError

RECURSIVE deepPick(_, _)
RECURSIVE pickNestedAttributes(_, _, _)
\* for (const key of Object.keys(nestedAttributes)): value[key] = deepPick(...)
pickNestedAttributes(v, keys, attributes) ==
    IF keys = <<>> \/ IsThrow(v) THEN v
    ELSE pickNestedAttributes(
             assignProperty(v, Head(keys),
                            deepPick(property(v, Head(keys)),
                                     nestedAttributes(attributes, Head(keys)))),
             Tail(keys), attributes)

\* the actual picking, on the value with its nested attributes picked
pickAttributes(v, attributes) ==
    IF IsThrow(v) THEN v
    ELSE IF v.t = "arr"
         THEN Arr([i \in 1..Len(v.a) |-> lodashPick(v.a[i], attributes)])
         ELSE lodashPick(v, attributes)

deepPick(v, attributes) ==
    pickAttributes(pickNestedAttributes(v, nestedKeys(attributes), attributes),
                   attributeKeys(attributes))

\* PickInterceptor.intercept on the value of the handler
pickValue(v, pick) ==
    IF Truthy(pick)
    THEN IF IsThrow(deepPick(v, SplitComma(pick.s)))
         THEN deepPick(v, SplitComma(pick.s))
         ELSE Emitted(deepPick(v, SplitComma(pick.s)), None)
    ELSE Emitted(v, None)

(***************************************************************************)
(* The values of the handlers and the query parameters of the requests     *)
(***************************************************************************)
MaxItems == 3

K_c == <<"c">>
K_d == <<"d">>
K_e == <<"e">>
K_cd == <<"c", ".", "d">>

N(i) == Num(i, <<>>)

Nested(d, e) == Obj(<<Entry(K_d, N(d)), Entry(K_e, N(e))>>)

\* users with a name in mixed case or none, an age, and a nested object,
\* a nested array or neither
Items ==
    { Obj(<<Entry(K_name, Str(<<"J", "o", "h", "n">>)), Entry(K_age, N(2)),
            Entry(K_c, Nested(1, 2))>>),
      Obj(<<Entry(K_name, Str(<<"j", "o", "a", "n">>)), Entry(K_age, N(1)),
            Entry(K_c, Arr(<<Nested(3, 4)>>))>>),
      Obj(<<Entry(K_name, Str(<<"J", "O", "A", "N">>)), Entry(K_age, N(2))>>),
      Obj(<<Entry(K_age, N(1))>>) }

ItemArrays == UNION { [1..n -> Items] : n \in 0..MaxItems }

HandlerValues == { Arr(a) : a \in ItemArrays } \cup Items \cup { Str(<<"o", "k">>) }

Chars(S) == { Str(<<c>>) : c \in S }

PaginationParams ==
    { QueryParams(offset, limit, Undefined, Undefined, Undefined) :
        offset \in {Undefined, Str(<<"-", "1">>), Str(S_x)} \cup Chars({"0", "1", "2", "5"}),
        limit \in {Undefined} \cup Chars({"0", "1", "2", "5"}) }

FilterParams ==
    { QueryParams(Undefined, Undefined, filter, Undefined, Undefined) :
        filter \in
          { Undefined, Obj(<<>>),
            Obj(<<Entry(K_name, Str(<<"j", "o">>))>>),
            Obj(<<Entry(K_name, Str(<<"J", "O", "A">>))>>),
            Obj(<<Entry(K_age, Str(<<"1">>))>>),
            Obj(<<Entry(K_name, Str(<<"o">>)), Entry(K_age, Str(<<"2">>))>>),
            Obj(<<Entry(K_cd, Str(<<"1">>))>>) } }

SortParams ==
    { QueryParams(Undefined, Undefined, Undefined, sort, Undefined) :
        sort \in
          { Undefined,
            Str(K_name), Str(<<"-">> \o K_name), Str(K_age), Str(<<"-">> \o K_age),
            Str(K_name \o <<",", "-">> \o K_age),
            Str(K_age \o <<",">> \o K_name),
            Str(<<"-">> \o K_age \o <<",", "-">> \o K_name),
            Str(K_cd) } }

PickParams ==
    { QueryParams(Undefined, Undefined, Undefined, Undefined, pick) :
        pick \in
          { Undefined, Str(<<>>),
            Str(K_name), Str(K_name \o <<",">> \o K_age),
            Str(K_cd), Str(K_name \o <<",">> \o K_cd),
            Str(K_age \o <<",">> \o K_cd \o <<",">> \o <<"c", ".", "e">>),
            Str(K_c \o <<",">> \o K_cd) } }

(***************************************************************************)
(* CrudService.find of part_010: the casters of the schema types           *)
(***************************************************************************)
MaxCalls == 2

\* the calls of find that may be in flight
Calls == 1..MaxCalls

\* Object.keys(this.crudModel.base.SchemaTypes): types with a cast function
\* and one without
SchemaTypes == {"String", "Number", "Mixed"}

hasCast(type) == type # "Mixed"

\* the caster that mongoose installs for a type
DefaultCaster(type) == [t |-> "caster", type |-> type]

\* v => { try { return validators[type](v); } catch (e) { return v; } }:
\* the function closes over the validators of its call
LenientCaster(call, validator) == [t |-> "lenient", call |-> call, validator |-> validator]

\* schemaType.cast(): the casters before any call of find
DefaultCasters == [type \in SchemaTypes |-> IF hasCast(type) THEN DefaultCaster(type) ELSE None]

\* validators[type] = schemaType.cast() for every type that has a cast
savedValidators(casters) == casters

\* schemaType.cast(v => ...) for every type that has a cast
disableCastErrors(call, casters) ==
    [type \in SchemaTypes |->
        IF hasCast(type) THEN LenientCaster(call, casters[type]) ELSE casters[type]]

\* this.crudModel.base[type].cast(validators[type]) for every saved type
enableCastErrors(casters, validators) ==
    [type \in SchemaTypes |-> IF hasCast(type) THEN validators[type] ELSE casters[type]]

\* one call of find: where it is, the request it was given, its validators
FindCall(pc, req, validators) ==
    [t |-> "findCall", pc |-> pc, request |-> req, validators |-> validators]

\* the requests of the calls: none, one without and one with a context
CallRequests == {"none", "request", "context"}

\* the await that follows the synchronous start of find
firstAwait(req) == IF req = "none" THEN "getPopulateParams" ELSE "onFindRequest"

\* the await that follows onFindRequest
afterOnFindRequest(req) == IF req = "context" THEN "countDocuments" ELSE "getPopulateParams"

Awaits == {"onFindRequest", "countDocuments", "getPopulateParams", "exec"}

(***************************************************************************)
(* CacheInterceptor: the static cache                                      *)
(***************************************************************************)
queueLength == 20

MaxInFlight == 1

\* the urls of the requests: a list of users, and a count that is 0
Urls == {"/users", "/count"}

\* the value the handler of a url emits
handlerValueOf(url) == IF url = "/users" THEN Arr(<<>>) ELSE Num(0, <<>>)

\* an entry of the cache; the newest entry is the first
CacheEntry(url, v) == [url |-> url, value |-> v]

\* CacheInterceptor.cache.filter(i => Date.now() - i.createdAt < i.lifetime)
\* when the alive newest entries have expired: entries of one lifetime
\* expire oldest first
expire(entries, alive) == SubSeq(entries, 1, alive)

\* cache.splice(queueLength, cache.length)
spliceQueue(entries) ==
    IF Len(entries) > queueLength THEN SubSeq(entries, 1, queueLength) ELSE entries

\* limitQueue
limitQueue(entries, alive) == spliceQueue(expire(entries, alive))

\* getCachedValue on the limited cache: the value of the first entry of
\* the url, or null
getCachedValue(entries, url) ==
    IF \E i \in 1..Len(entries) : entries[i].url = url
    THEN entries[CHOOSE i \in 1..Len(entries) :
                     entries[i].url = url /\ \A j \in 1..(i - 1) : entries[j].url # url].value
    ELSE Null

\* setCachedValue: cache.unshift
setCachedValue(entries, url, v) == <<CacheEntry(url, v)>> \o entries

(***************************************************************************)
(* toPrimitive applied to one string                                       *)
(***************************************************************************)
\* the parts of the state that a specification does not use
IdlePrimitive == value = None /\ primitive = None
IdleQuery == request = None /\ config = None /\ decorator = "none" /\ result = None
IdleErrors ==
    /\ exception = None /\ showErrorDetails = FALSE /\ stackOption = FALSE
    /\ handled = "none" /\ answer = None

IdleController ==
    permissions = None /\ endpoint = "none" /\ invoked = "none" /\ thrown = None

IdleFind ==
    /\ findConditions = None /\ mongoRequest = None /\ httpQuery = None
    /\ executed = None /\ found = {}
    /\ findOptions = None /\ context = FALSE /\ xTotalCount = None

IdleInterceptors ==
    handlerValue = None /\ queryParams = None /\ interceptor = "none" /\ emitted = None

IdleCasters ==
    schemaCasters = None /\ findCalls = None

IdleCache ==
    cache = None /\ inFlight = None

InitPrimitive ==
    /\ value \in PrimitiveInputs
    /\ primitive = None
    /\ IdleQuery /\ IdleErrors /\ IdleController /\ IdleFind /\ IdleInterceptors
    /\ IdleCasters /\ IdleCache

ToPrimitive ==
    /\ primitive = None
    /\ primitive' = toPrimitive(value)
    /\ UNCHANGED <<value, queryVars, errorVars, controllerVars, findVars,
                   interceptorVars, casterVars, cacheVars>>

NextPrimitive == ToPrimitive

SpecPrimitive == InitPrimitive /\ [][NextPrimitive]_vars

(***************************************************************************)
(* The QueryOptions decorator applied to one request                       *)
(***************************************************************************)
InitQuery ==
    /\ request \in Requests
    /\ config \in Configs
    /\ decorator = "none"
    /\ result = None
    /\ IdlePrimitive /\ IdleErrors /\ IdleController /\ IdleFind /\ IdleInterceptors
    /\ IdleCasters /\ IdleCache

\* src/source/decorators/query-options.decorator.ts
QueryOptions ==
    /\ decorator = "none"
    /\ decorator' = "header[]"
    /\ result' = decorate(headerProperty(request), request, config)
    /\ UNCHANGED <<request, config, primitiveVars, errorVars, controllerVars,
                   findVars, interceptorVars, casterVars, cacheVars>>

\* the decorator that calls request.header(name)
QueryOptionsHeaderCall ==
    /\ decorator = "none"
    /\ decorator' = "header()"
    /\ result' = decorate(headerCall(request), request, config)
    /\ UNCHANGED <<request, config, primitiveVars, errorVars, controllerVars,
                   findVars, interceptorVars, casterVars, cacheVars>>

NextQuery == QueryOptions \/ QueryOptionsHeaderCall

SpecQuery == InitQuery /\ [][NextQuery]_vars

(***************************************************************************)
(* One error that reaches the filter or the interceptor                    *)
(***************************************************************************)
InitErrors ==
    /\ exception \in Exceptions
    /\ showErrorDetails \in BOOLEAN
    /\ stackOption \in BOOLEAN
    /\ handled = "none"
    /\ answer = None
    /\ IdlePrimitive /\ IdleQuery /\ IdleController /\ IdleFind /\ IdleInterceptors
    /\ IdleCasters /\ IdleCache

\* src/source/filters/http-exception.filter.ts
Catch ==
    /\ handled = "none"
    /\ handled' = "catch"
    /\ answer' = catch(exception, showErrorDetails)
    /\ UNCHANGED <<exception, showErrorDetails, stackOption, primitiveVars,
                   queryVars, controllerVars, findVars, interceptorVars, casterVars,
                   cacheVars>>

\* the filter of part_014
CatchPart014 ==
    /\ handled = "none"
    /\ handled' = "catchPart014"
    /\ answer' = catchPart014(exception, showErrorDetails)
    /\ UNCHANGED <<exception, showErrorDetails, stackOption, primitiveVars,
                   queryVars, controllerVars, findVars, interceptorVars, casterVars,
                   cacheVars>>

\* src/server/interceptors/exception.interceptor.ts
Intercept ==
    /\ handled = "none"
    /\ handled' = "intercept"
    /\ answer' = intercept(exception, stackOption)
    /\ UNCHANGED <<exception, showErrorDetails, stackOption, primitiveVars,
                   queryVars, controllerVars, findVars, interceptorVars, casterVars,
                   cacheVars>>

\* the interceptor of part_003
InterceptPart003 ==
    /\ handled = "none"
    /\ handled' = "interceptPart003"
    /\ answer' = interceptPart003(exception)
    /\ UNCHANGED <<exception, showErrorDetails, stackOption, primitiveVars,
                   queryVars, controllerVars, findVars, interceptorVars, casterVars,
                   cacheVars>>

NextErrors == Catch \/ CatchPart014 \/ Intercept \/ InterceptPart003

SpecErrors == InitErrors /\ [][NextErrors]_vars

(***************************************************************************)
(* One request to an endpoint of a CrudController                          *)
(***************************************************************************)
InitController ==
    /\ permissions \in PermissionInputs
    /\ endpoint = "none"
    /\ invoked = "none"
    /\ thrown = None
    /\ IdlePrimitive /\ IdleQuery /\ IdleErrors /\ IdleFind /\ IdleInterceptors
    /\ IdleCasters /\ IdleCache

create ==
    /\ endpoint = "none"
    /\ endpoint' = "create"
    /\ invoked' = invokedAfter(checkPermissions(permissions.create), "create")
    /\ thrown' = thrownAfter(checkPermissions(permissions.create))
    /\ UNCHANGED <<permissions, primitiveVars, queryVars, errorVars, findVars,
                   interceptorVars, casterVars, cacheVars>>

getAll ==
    /\ endpoint = "none"
    /\ endpoint' = "getAll"
    /\ invoked' = invokedAfter(checkPermissions(permissions.read), "find")
    /\ thrown' = thrownAfter(checkPermissions(permissions.read))
    /\ UNCHANGED <<permissions, primitiveVars, queryVars, errorVars, findVars,
                   interceptorVars, casterVars, cacheVars>>

get ==
    /\ endpoint = "none"
    /\ endpoint' = "get"
    /\ invoked' = invokedAfter(checkPermissions(permissions.read), "get")
    /\ thrown' = thrownAfter(checkPermissions(permissions.read))
    /\ UNCHANGED <<permissions, primitiveVars, queryVars, errorVars, findVars,
                   interceptorVars, casterVars, cacheVars>>

getMany ==
    /\ endpoint = "none"
    /\ endpoint' = "getMany"
    /\ invoked' = invokedAfter(checkPermissions(permissions.read), "getMany")
    /\ thrown' = thrownAfter(checkPermissions(permissions.read))
    /\ UNCHANGED <<permissions, primitiveVars, queryVars, errorVars, findVars,
                   interceptorVars, casterVars, cacheVars>>

put ==
    /\ endpoint = "none"
    /\ endpoint' = "put"
    /\ invoked' = invokedAfter(checkPermissions(permissions.update), "put")
    /\ thrown' = thrownAfter(checkPermissions(permissions.update))
    /\ UNCHANGED <<permissions, primitiveVars, queryVars, errorVars, findVars,
                   interceptorVars, casterVars, cacheVars>>

patch ==
    /\ endpoint = "none"
    /\ endpoint' = "patch"
    /\ invoked' = invokedAfter(checkPermissions(permissions.update), "patch")
    /\ thrown' = thrownAfter(checkPermissions(permissions.update))
    /\ UNCHANGED <<permissions, primitiveVars, queryVars, errorVars, findVars,
                   interceptorVars, casterVars, cacheVars>>

delete ==
    /\ endpoint = "none"
    /\ endpoint' = "delete"
    /\ invoked' = invokedAfter(checkPermissions(permissions.delete), "delete")
    /\ thrown' = thrownAfter(checkPermissions(permissions.delete))
    /\ UNCHANGED <<permissions, primitiveVars, queryVars, errorVars, findVars,
                   interceptorVars, casterVars, cacheVars>>

NextController == create \/ getAll \/ get \/ getMany \/ put \/ patch \/ delete

SpecController == InitController /\ [][NextController]_vars

(***************************************************************************)
(* One call of CrudService.find, by a caller or by getAll                  *)
(***************************************************************************)
InitFind ==
    /\ \/ /\ findConditions \in ConditionInputs
          /\ \E filters \in FilterInputs, req \in RequestInputs :
                 mongoRequest = MongoRequest(filters, req)
          /\ httpQuery = HttpQuery(Undefined, Undefined, Undefined)
       \/ /\ findConditions = Obj(<<>>)
          /\ \E req \in RequestInputs : mongoRequest = MongoRequest(Undefined, req)
          /\ httpQuery \in HttpQueries
    /\ executed = None
    /\ found = {}
    /\ findOptions \in FindOptionInputs
    /\ context \in (IF Truthy(mongoRequest.request) THEN BOOLEAN ELSE {FALSE})
    /\ xTotalCount = None
    /\ IdlePrimitive /\ IdleQuery /\ IdleErrors /\ IdleController
    /\ IdleInterceptors /\ IdleCasters /\ IdleCache

\* crudService.find(conditions, mongoRequest): merge and cast mutate the
\* conditions object of the caller
find ==
    /\ executed = None
    /\ executed' = findConditionsOf(findConditions, mongoRequest)
    /\ findConditions' = executed'
    /\ found' = collectionFind(executed', findOptions)
    /\ xTotalCount' = totalCountHeader(executed', mongoRequest.request, context)
    /\ UNCHANGED <<mongoRequest, httpQuery, findOptions, context, primitiveVars,
                   queryVars, errorVars, controllerVars, interceptorVars,
                   casterVars, cacheVars>>

\* getAll of part_016: crudService.find({}, { request, ...params }) with the
\* filters of queryToConditions(query)
getAllFind ==
    /\ executed = None
    /\ mongoRequest' = MongoRequest(queryToConditions(httpQuery), mongoRequest.request)
    /\ executed' = findConditionsOf(Obj(<<>>), mongoRequest')
    /\ found' = collectionFind(executed', findOptions)
    /\ xTotalCount' = totalCountHeader(executed', mongoRequest.request, context)
    /\ UNCHANGED <<findConditions, httpQuery, findOptions, context, primitiveVars,
                   queryVars, errorVars, controllerVars, interceptorVars,
                   casterVars, cacheVars>>

NextFind == find \/ getAllFind

SpecFind == InitFind /\ [][NextFind]_vars

(***************************************************************************)
(* One response through one of the interceptors                            *)
(***************************************************************************)
InitInterceptors ==
    /\ handlerValue \in HandlerValues
    /\ queryParams \in PaginationParams \cup FilterParams \cup SortParams \cup PickParams
    /\ interceptor = "none"
    /\ emitted = None
    /\ IdlePrimitive /\ IdleQuery /\ IdleErrors /\ IdleController /\ IdleFind
    /\ IdleCasters /\ IdleCache

PaginationInterceptor ==
    /\ interceptor = "none"
    /\ interceptor' = "pagination"
    /\ emitted' = paginate(handlerValue, queryParams.offset, queryParams.limit)
    /\ UNCHANGED <<handlerValue, queryParams, primitiveVars, queryVars, errorVars,
                   controllerVars, findVars, casterVars, cacheVars>>

FilterInterceptor ==
    /\ interceptor = "none"
    /\ interceptor' = "filter"
    /\ emitted' = filterValue(handlerValue, queryParams.filter)
    /\ UNCHANGED <<handlerValue, queryParams, primitiveVars, queryVars, errorVars,
                   controllerVars, findVars, casterVars, cacheVars>>

SortInterceptor ==
    /\ interceptor = "none"
    /\ interceptor' = "sort"
    /\ emitted' = sortValue(handlerValue, queryParams.sort)
    /\ UNCHANGED <<handlerValue, queryParams, primitiveVars, queryVars, errorVars,
                   controllerVars, findVars, casterVars, cacheVars>>

PickInterceptor ==
    /\ interceptor = "none"
    /\ interceptor' = "pick"
    /\ emitted' = pickValue(handlerValue, queryParams.pick)
    /\ UNCHANGED <<handlerValue, queryParams, primitiveVars, queryVars, errorVars,
                   controllerVars, findVars, casterVars, cacheVars>>

NextInterceptors ==
    PaginationInterceptor \/ FilterInterceptor \/ SortInterceptor \/ PickInterceptor

SpecInterceptors == InitInterceptors /\ [][NextInterceptors]_vars

(***************************************************************************)
(* Calls of find of part_010 that overlap during their awaits              *)
(***************************************************************************)
InitCasters ==
    /\ schemaCasters = DefaultCasters
    /\ findCalls = [c \in Calls |-> FindCall("idle", "none", None)]
    /\ IdlePrimitive /\ IdleQuery /\ IdleErrors /\ IdleController /\ IdleFind
    /\ IdleInterceptors /\ IdleCache

\* lines 89-112: the synchronous start of find up to its first await
findStart(c) ==
    /\ findCalls[c].pc = "idle"
    /\ \E req \in CallRequests :
           findCalls' = [findCalls EXCEPT
                            ![c] = FindCall(firstAwait(req), req,
                                            savedValidators(schemaCasters))]
    /\ schemaCasters' = disableCastErrors(c, schemaCasters)
    /\ UNCHANGED <<primitiveVars, queryVars, errorVars, controllerVars, findVars,
                   interceptorVars, cacheVars>>

\* lines 112-118: onFindRequest resolves
awaitOnFindRequest(c) ==
    /\ findCalls[c].pc = "onFindRequest"
    /\ findCalls' = [findCalls EXCEPT ![c].pc = afterOnFindRequest(findCalls[c].request)]
    /\ UNCHANGED <<schemaCasters, primitiveVars, queryVars, errorVars,
                   controllerVars, findVars, interceptorVars, cacheVars>>

\* lines 124-132: countDocuments resolves
awaitCountDocuments(c) ==
    /\ findCalls[c].pc = "countDocuments"
    /\ findCalls' = [findCalls EXCEPT ![c].pc = "getPopulateParams"]
    /\ UNCHANGED <<schemaCasters, primitiveVars, queryVars, errorVars,
                   controllerVars, findVars, interceptorVars, cacheVars>>

\* lines 138-145: getPopulateParams resolves and the query is started
awaitGetPopulateParams(c) ==
    /\ findCalls[c].pc = "getPopulateParams"
    /\ findCalls' = [findCalls EXCEPT ![c].pc = "exec"]
    /\ UNCHANGED <<schemaCasters, primitiveVars, queryVars, errorVars,
                   controllerVars, findVars, interceptorVars, cacheVars>>

\* lines 145-161: the query resolves, the validators of the call are put
\* back and find returns
awaitExec(c) ==
    /\ findCalls[c].pc = "exec"
    /\ schemaCasters' = enableCastErrors(schemaCasters, findCalls[c].validators)
    /\ findCalls' = [findCalls EXCEPT ![c].pc = "returned"]
    /\ UNCHANGED <<primitiveVars, queryVars, errorVars, controllerVars, findVars,
                   interceptorVars, cacheVars>>

\* an awaited promise rejects: find throws from the await, and nothing
\* behind it runs
awaitRejects(c) ==
    /\ findCalls[c].pc \in Awaits
    /\ findCalls' = [findCalls EXCEPT ![c].pc = "threw"]
    /\ UNCHANGED <<schemaCasters, primitiveVars, queryVars, errorVars,
                   controllerVars, findVars, interceptorVars, cacheVars>>

NextCasters ==
    \E c \in Calls :
        \/ findStart(c)
        \/ awaitOnFindRequest(c)
        \/ awaitCountDocuments(c)
        \/ awaitGetPopulateParams(c)
        \/ awaitExec(c)
        \/ awaitRejects(c)

SpecCasters == InitCasters /\ [][NextCasters]_vars

(***************************************************************************)
(* Requests through the CacheInterceptor                                   *)
(***************************************************************************)
InitCache ==
    /\ cache = <<>>
    /\ inFlight = [url \in Urls |-> 0]
    /\ IdlePrimitive /\ IdleQuery /\ IdleErrors /\ IdleController /\ IdleFind
    /\ IdleInterceptors /\ IdleCasters

\* intercept finds a cached value and answers with it; alive is the number
\* of entries that have not expired when the request arrives
interceptCached(url) ==
    \E alive \in 0..Len(cache) :
        /\ Truthy(getCachedValue(limitQueue(cache, alive), url))
        /\ cache' = limitQueue(cache, alive)
        /\ UNCHANGED <<inFlight, primitiveVars, queryVars, errorVars,
                       controllerVars, findVars, interceptorVars, casterVars>>

\* intercept finds no cached value and hands the request to the handler
interceptMissed(url) ==
    \E alive \in 0..Len(cache) :
        /\ ~Truthy(getCachedValue(limitQueue(cache, alive), url))
        /\ inFlight[url] < MaxInFlight
        /\ cache' = limitQueue(cache, alive)
        /\ inFlight' = [inFlight EXCEPT ![url] = @ + 1]
        /\ UNCHANGED <<primitiveVars, queryVars, errorVars, controllerVars,
                       findVars, interceptorVars, casterVars>>

\* the handler emits its value: map stores it in the cache
handlerEmits(url) ==
    /\ inFlight[url] > 0
    /\ cache' = setCachedValue(cache, url, handlerValueOf(url))
    /\ inFlight' = [inFlight EXCEPT ![url] = @ - 1]
    /\ UNCHANGED <<primitiveVars, queryVars, errorVars, controllerVars, findVars,
                   interceptorVars, casterVars>>

NextCache ==
    \E url \in Urls : interceptCached(url) \/ interceptMissed(url) \/ handlerEmits(url)

SpecCache == InitCache /\ [][NextCache]_vars

(***************************************************************************)
(* Measures of condition trees and populate lists used by the properties   *)
(***************************************************************************)
\* the greatest element of a finite set of naturals, 0 for the empty set
Greatest(S) == IF S = {} THEN 0 ELSE CHOOSE i \in S : \A j \in S : j <= i

\* the dotted segments of a key, none for a key that starts with "$"
SegmentCount(k) == IF k # <<>> /\ Head(k) = "$" THEN 0 ELSE Len(Split(k))

RECURSIVE FieldDepthOf(_)
\* the largest sum of segment counts along a path from x to a leaf
FieldDepthOf(x) ==
    CASE x.t = "obj" ->
           Greatest({ SegmentCount(x.kv[i].k) + FieldDepthOf(x.kv[i].v) :
                        i \in 1..Len(x.kv) })
      [] x.t = "arr" -> Greatest({ FieldDepthOf(x.a[i]) : i \in 1..Len(x.a) })
      [] OTHER -> 0

RECURSIVE NestingOf(_)
\* the nesting depth of x: the most keys on a path from x to a leaf
NestingOf(x) ==
    CASE x.t = "obj" ->
           Greatest({ 1 + NestingOf(x.kv[i].v) : i \in 1..Len(x.kv) })
      [] x.t = "arr" -> Greatest({ NestingOf(x.a[i]) : i \in 1..Len(x.a) })
      [] OTHER -> 0

RECURSIVE KeysOf(_)
\* every key that occurs in x
KeysOf(x) ==
    CASE x.t = "obj" ->
           { x.kv[i].k : i \in 1..Len(x.kv) }
               \cup UNION { KeysOf(x.kv[i].v) : i \in 1..Len(x.kv) }
      [] x.t = "arr" -> UNION { KeysOf(x.a[i]) : i \in 1..Len(x.a) }
      [] OTHER -> {}

RECURSIVE PopulateDepthOf(_)
\* the deepest populate chain of a populate list: a string counts its
\* segments, an object one level more than its nested list
PopulateDepthOf(x) ==
    CASE x.t = "arr" -> Greatest({ PopulateDepthOf(x.a[i]) : i \in 1..Len(x.a) })
      [] x.t = "str" -> IF x.s = <<>> THEN 0 ELSE Len(Split(x.s))
      [] x.t = "populateOption" -> 1 + PopulateDepthOf(x.populate)
      [] OTHER -> 0

\* the keys that customOperators inherits from Object.prototype
PrototypeKeys == {K_constructor, K_valueOf, K_toString, K_hasOwnProperty}

\* the maxDepth that queryToOptions uses for the configuration
MaxDepthOf(cfg) == IF cfg.t = "config" THEN cfg.maxDepth ELSE DefaultMaxDepth

Returned == result.t = "queryOptions"

\* the decorator built its options from request.query
FromQuery == Returned /\ ~Truthy(request.header)

RECURSIVE castCalls(_, _, _)
\* the invocations of castQueryConditions that castQueryConditions(conditions,
\* remainingDepth) makes when nothing throws, itself included: the keys each
\* was reached through and its remainingDepth
castCalls(conditions, remainingDepth, path) ==
    LET entries == ObjectEntries(conditions)
        below(e) ==
            IF omitField(e.k, remainingDepth) \/ customOperatorsHas(e.k) THEN {}
            ELSE IF e.v.t = "arr"
            THEN UNION { castCalls(e.v.a[i], remainingDepth - fieldDepth(e.k),
                                   Append(path, e.k)) :
                           i \in {j \in 1..Len(e.v.a) : e.v.a[j].t # "str"} }
            ELSE IF e.v.t = "str" THEN {}
            ELSE castCalls(e.v, remainingDepth - fieldDepth(e.k), Append(path, e.k))
    IN {[path |-> path, remainingDepth |-> remainingDepth]}
           \cup UNION { below(entries[i]) : i \in 1..Len(entries) }

\* the sum of the segment counts of the keys of a path
RECURSIVE SegmentSum(_)
SegmentSum(path) ==
    IF path = <<>> THEN 0 ELSE SegmentCount(Head(path)) + SegmentSum(Tail(path))

MatchCalls == castCalls(OrEmpty(request.query.match), MaxDepthOf(config), <<>>)

(***************************************************************************)
(* Properties of the QueryOptions decorator (SpecQuery)                    *)
(***************************************************************************)
\* C1: in the match that queryToOptions returns, the segment counts of the
\* keys that do not start with "$" sum to at most maxDepth along every path
\* from the root to a leaf.
C1_FieldDepthBounded ==
    FromQuery => FieldDepthOf(result.options.match) <= MaxDepthOf(config)

C3_PopulateDepthBounded ==
    (FromQuery /\ MaxDepthOf(config) >= 1)
        => PopulateDepthOf(result.options.populate) <= MaxDepthOf(config)

\* C8: the returned match never contains a key $isNull, and a match that is
\* { $isNull: v } becomes { $eq: null } for v in {"true", true, "1", 1} and
\* { $ne: null } for any other v.
C8_IsNullMapped ==
    FromQuery =>
        /\ K_isNull \notin KeysOf(result.options.match)
        /\ \A v \in {Str(S_true), Bool(TRUE), Str(<<"0">>)} :
               request.query.match = Obj(<<Entry(K_isNull, v)>>)
                   => result.options.match =
                          Obj(<<Entry(IF v = Str(<<"0">>) THEN K_ne ELSE K_eq, Null)>>)

\* C10: with an x-query-options header the options are those of the header's
\* JSON, and not those of the query string; without it they are those of
\* request.query; the request and the response are attached.
C10_HeaderDecides ==
    result # None =>
        /\ Truthy(request.header)
               => result = optionsOf(JSONparse(request.header.s), request, config)
        /\ request.header = Undefined
               => result = optionsOf(request.query, request, config)
        /\ Returned => result.request = request /\ result.response = Response

\* the decorator of part_019 satisfies the statement of C10
HeaderCallDecides == decorator = "header()" => C10_HeaderDecides

\* for a match without a key of Object.prototype the statement of C1 holds
FieldDepthBoundedWithoutPrototypeKeys ==
    (FromQuery /\ KeysOf(OrEmpty(request.query.match)) \cap PrototypeKeys = {})
        => C1_FieldDepthBounded

(***************************************************************************)
(* Properties of toPrimitive (SpecPrimitive)                               *)
(***************************************************************************)
\* a string of the form {{...}}
Enclosed(s) ==
    Len(s) >= 4 /\ SubSeq(s, 1, 2) = <<"{", "{">>
        /\ SubSeq(s, Len(s) - 1, Len(s)) = <<"}", "}">>

\* C9: a string not of the form {{...}} is returned unchanged; {{null}},
\* {{undefined}}, {{true}} and {{false}} give the primitives, {{n}} for a
\* decimal number n the number n, and any other {{s}} the inner string s.
C9_ParsedWhenEnclosed ==
    primitive # None =>
        IF ~Enclosed(value) THEN primitive = Str(value)
        ELSE LET inner == SubSeq(value, 3, Len(value) - 2)
             IN CASE inner = <<"n", "u", "l", "l">> -> primitive = Null
                  [] inner = <<"u", "n", "d", "e", "f", "i", "n", "e", "d">>
                       -> primitive = Undefined
                  [] inner = <<"t", "r", "u", "e">> -> primitive = Bool(TRUE)
                  [] inner = <<"f", "a", "l", "s", "e">> -> primitive = Bool(FALSE)
                  [] numberRegex(inner) -> primitive = UnaryPlus(inner)
                  [] OTHER -> primitive = Str(inner)

(***************************************************************************)
(* Properties of the error handlers (SpecErrors)                           *)
(***************************************************************************)
Filtered == handled \in {"catch", "catchPart014"}
Intercepted == handled \in {"intercept", "interceptPart003"}

\* the string "Internal server error"
FixedMessage ==
    Str(<<"I", "n", "t", "e", "r", "n", "a", "l", " ", "s", "e", "r", "v", "e", "r", " ",
          "e", "r", "r", "o", "r">>)

\* the body is the object { status, message, stack } with a stack in it
StackInBody == answer.body.t = "json" /\ answer.body.stack # Undefined

Yields(canActivate) == canActivate.b

\* the permission that the requested endpoint checks
Checked == permissions[EndpointNamed(endpoint).permission]

\* C4: with a permission configured, the endpoint invokes its service method
\* only if every guard yields true, as a boolean, a Promise or an Observable;
\* if a guard yields false it throws an HttpException with status 403 and
\* invokes nothing.  With no permission it invokes the service method.
C4_GuardsDecide ==
    endpoint # "none" =>
        IF Checked = Undefined THEN invoked = EndpointNamed(endpoint).method
        ELSE /\ invoked # "none" =>
                    \A i \in 1..Len(Checked.guards) : Yields(Checked.guards[i])
             /\ (\E i \in 1..Len(Checked.guards) : ~Yields(Checked.guards[i])) =>
                    /\ invoked = "none"
                    /\ thrown.t = "HttpException"
                    /\ thrown.status = 403

\* with guards that return booleans the statement of C4 holds
BooleanGuardsDecide ==
    (endpoint # "none" /\ Checked # Undefined
        /\ \A i \in 1..Len(Checked.guards) : Checked.guards[i].t = "bool")
            => C4_GuardsDecide

(***************************************************************************)
(* Properties of CrudService.find (SpecFind)                               *)
(***************************************************************************)
\* find ran for a request
FoundForRequest == executed # None /\ mongoRequest.request # Undefined

\* the document satisfies every condition that onFindRequest returned
Authorized(doc) ==
    \A i \in 1..Len(mongoRequest.request.authorization) :
        matches(doc, mongoRequest.request.authorization[i])

\* C5: when find is called with a request, no document that violates a
\* condition returned by onFindRequest matches the executed conditions,
\* whatever the conditions and filters of the caller.
C5_AuthorizationEnforced ==
    FoundForRequest => \A doc \in found : Authorized(doc)

\* with filters whose $and has at most one item the statement of C5 holds
\* for the calls of getAll
SingleFilterEnforced ==
    (FoundForRequest /\ httpQuery.filter # Undefined
        /\ Len(OrEmpty(httpQuery.filter).kv) <= 1 /\ findConditions = Obj(<<>>))
            => C5_AuthorizationEnforced

(***************************************************************************)
(* Properties of queryToConditions (SpecFind)                              *)
(***************************************************************************)
\* the document matches the key: one of the key's conditions holds
MatchesKey(doc, key, v) ==
    \E i \in 1..Len(keyConditions(key, v)) : matches(doc, keyConditions(key, v)[i])

\* the document matches every filter key and, when a search term is given,
\* at least one key of the search scope
Satisfies(doc, query) ==
    /\ \A i \in 1..Len(OrEmpty(query.filter).kv) :
           MatchesKey(doc, OrEmpty(query.filter).kv[i].k, OrEmpty(query.filter).kv[i].v)
    /\ Truthy(query.search) =>
           \E i \in 1..Len(searchScopeOf(query)) :
               MatchesKey(doc, searchScopeOf(query)[i], query.search)

\* C11: the conditions that getAll produces from the query are satisfied by
\* exactly the documents that match every filter key and, when a search term
\* is given, at least one key of the search scope; with neither filter nor
\* search by every document.
C11_FilterAndSearch ==
    [][getAllFind =>
          /\ \A doc \in Documents :
                 matches(doc, mongoRequest'.filters) <=> Satisfies(doc, httpQuery)
          /\ (httpQuery.filter = Undefined /\ httpQuery.search = Undefined) =>
                 \A doc \in Documents : matches(doc, mongoRequest'.filters)]_vars

\* C11's case: getAll produced conditions from two filter keys and a search
\* term, which some documents satisfy and some do not
C11_Witness ==
    /\ executed # None
    /\ HasKey(OrEmpty(mongoRequest.filters), K_or)
    /\ Truthy(httpQuery.search)
    /\ Len(OrEmpty(httpQuery.filter).kv) = 2
    /\ \E doc \in Documents : matches(doc, mongoRequest.filters)
    /\ \E doc \in Documents : ~matches(doc, mongoRequest.filters)

(***************************************************************************)
(* Properties of the interceptors (SpecInterceptors)                       *)
(***************************************************************************)
\* a query parameter that is absent or a decimal natural number
NaturalOrAbsent(x) ==
    \/ x = Undefined
    \/ x.t = "str" /\ x.s # <<>> /\ \A i \in 1..Len(x.s) : x.s[i] \in Digits

NaturalOf(x, absent) == IF x = Undefined THEN absent ELSE IntOf(x.s)

\* the items at the positions from..(from + count - 1), counted from 0
Window(a, from, count) ==
    [i \in 1..(IF from >= Len(a) THEN 0
               ELSE IF from + count > Len(a) THEN Len(a) - from ELSE count) |->
        a[from + i]]

Paginated ==
    /\ interceptor = "pagination"
    /\ queryParams.offset # Undefined \/ queryParams.limit # Undefined
    /\ NaturalOrAbsent(queryParams.offset) /\ NaturalOrAbsent(queryParams.limit)

\* C12: with an offset or a limit and an array from the handler, the
\* response holds exactly the items at the positions offset..offset+limit-1
\* in their order, X-total-count is the length of the array before the
\* slice, and a value that is no array passes unchanged.
C12_Paginated ==
    Paginated =>
        IF handlerValue.t = "arr"
        THEN /\ emitted.value =
                    Arr(Window(handlerValue.a, NaturalOf(queryParams.offset, 0),
                               NaturalOf(queryParams.limit, Len(handlerValue.a))))
             /\ emitted.totalCount = N(Len(handlerValue.a))
        ELSE emitted = Emitted(handlerValue, None)

\* the statement of C12 holds for every limit but 0
PositiveLimitPaginated ==
    (Paginated /\ queryParams.limit # Str(<<"0">>)) => C12_Paginated

\* the filter string is in the present value of the key, whatever the case
KeyKeeps(item, key, match) ==
    /\ lodashGet(item, key, Undefined) \notin {Undefined, Null}
    /\ Includes(toLowerCase(itemToString(lodashGet(item, key, Undefined))),
                toLowerCase(match.s))

Keeps(item, filter) ==
    \A i \in 1..Len(filter.kv) : KeyKeeps(item, filter.kv[i].k, filter.kv[i].v)

RECURSIVE Kept(_, _)
\* the subsequence of the items that the filter keeps
Kept(a, filter) ==
    IF a = <<>> THEN <<>>
    ELSE IF Keeps(Head(a), filter) THEN <<Head(a)>> \o Kept(Tail(a), filter)
    ELSE Kept(Tail(a), filter)

\* C13: with a filter object and an array from the handler, the response
\* is exactly the subsequence, in the original order, of the items for
\* which every filter key has a present value that contains the filter
\* string case-insensitively, also when consecutive items fail.
C13_FilterKeepsMatching ==
    (interceptor = "filter" /\ ~isNil(queryParams.filter)) =>
        IF handlerValue.t = "arr"
        THEN emitted = Emitted(Arr(Kept(handlerValue.a, queryParams.filter)), None)
        ELSE emitted = Emitted(handlerValue, None)

\* two consecutive items fail a filter in upper case and a later one is kept
C13_Witness ==
    /\ interceptor = "filter"
    /\ queryParams.filter = Obj(<<Entry(K_name, Str(<<"J", "O", "A">>))>>)
    /\ handlerValue.t = "arr" /\ Len(handlerValue.a) = 3
    /\ ~Keeps(handlerValue.a[1], queryParams.filter)
    /\ ~Keeps(handlerValue.a[2], queryParams.filter)
    /\ emitted.value = Arr(<<handlerValue.a[3]>>)

\* the value an item is sorted by under a field
SortKey(item, field) == lodashGet(item, cleanse(field), Undefined)

\* two values that a field does not tell apart
SameKey(x, y) ==
    IF x.t = "str" /\ y.t = "str" THEN toLowerCase(x.s) = toLowerCase(y.s) ELSE x = y

\* x is before y in ascending order: a missing value first, strings
\* without regard to case, numbers by their value
KeyLess(x, y) ==
    IF x = Undefined THEN y # Undefined
    ELSE IF y = Undefined THEN FALSE
    ELSE IF x.t = "str" /\ y.t = "str"
         THEN stringGreater(toLowerCase(y.s), toLowerCase(x.s))
         ELSE x.i < y.i

RECURSIVE Tied(_, _, _)
\* no field tells the two items apart
Tied(x, y, fields) ==
    fields = <<>>
    \/ (SameKey(SortKey(x, Head(fields)), SortKey(y, Head(fields)))
            /\ Tied(x, y, Tail(fields)))

RECURSIVE Precedes(_, _, _)
\* the first field that tells the items apart puts x before y
Precedes(x, y, fields) ==
    /\ fields # <<>>
    /\ IF SameKey(SortKey(x, Head(fields)), SortKey(y, Head(fields)))
       THEN Precedes(x, y, Tail(fields))
       ELSE IF Head(Head(fields)) = "-"
            THEN KeyLess(SortKey(y, Head(fields)), SortKey(x, Head(fields)))
            ELSE KeyLess(SortKey(x, Head(fields)), SortKey(y, Head(fields)))

RECURSIVE TiedWith(_, _, _)
\* the subsequence of the items tied with x
TiedWith(a, x, fields) ==
    IF a = <<>> THEN <<>>
    ELSE IF Tied(Head(a), x, fields) THEN <<Head(a)>> \o TiedWith(Tail(a), x, fields)
    ELSE TiedWith(Tail(a), x, fields)

SortedBy(a, original, fields) ==
    /\ Len(a) = Len(original)
    /\ \A i \in 1..Len(a), j \in 1..Len(a) :
           i < j => (Precedes(a[i], a[j], fields) \/ Tied(a[i], a[j], fields))
    /\ \A x \in Items : TiedWith(a, x, fields) = TiedWith(original, x, fields)

\* C14: with a sort parameter and an array from the handler, the response
\* is a permutation of the array ordered by the fields in sequence,
\* ascending for a plain field and descending for a field with a hyphen,
\* strings compared without regard to case, a later field only breaking
\* the ties of the earlier ones, and tied items in their original order.
C14_Sorted ==
    (interceptor = "sort" /\ ~isNil(queryParams.sort)) =>
        IF handlerValue.t = "arr"
        THEN /\ emitted.value.t = "arr" /\ emitted.totalCount = None
             /\ SortedBy(emitted.value.a, handlerValue.a, SplitComma(queryParams.sort.s))
        ELSE emitted = Emitted(handlerValue, None)

\* names ascending, ages descending: the names differ in case only, the
\* second field breaks their tie, and the order of the array changes
C14_Witness ==
    /\ interceptor = "sort"
    /\ queryParams.sort = Str(K_name \o <<",", "-">> \o K_age)
    /\ handlerValue.t = "arr" /\ Len(handlerValue.a) = 3
    /\ emitted.value # handlerValue
    /\ \E i \in 1..2 :
           /\ SameKey(SortKey(emitted.value.a[i], K_name), SortKey(emitted.value.a[i + 1], K_name))
           /\ SortKey(emitted.value.a[i], K_name) # SortKey(emitted.value.a[i + 1], K_name)
           /\ SortKey(emitted.value.a[i], K_age).i > SortKey(emitted.value.a[i + 1], K_age).i

RECURSIVE OnlyPicked(_, _)
\* an object holds only the keys of the attributes, and what it holds
\* under a key with nested attributes holds only those; an array does so
\* in every item
OnlyPicked(v, attributes) ==
    CASE v.t = "arr" -> \A i \in 1..Len(v.a) : OnlyPicked(v.a[i], attributes)
      [] v.t = "obj" ->
           \A i \in 1..Len(v.kv) :
               /\ \E j \in 1..Len(attributes) : Head(Split(attributes[j])) = v.kv[i].k
               /\ nestedAttributes(attributes, v.kv[i].k) # <<>> =>
                      OnlyPicked(v.kv[i].v, nestedAttributes(attributes, v.kv[i].k))
      [] OTHER -> TRUE

\* C15: with pick=a,b,c.d every returned object, the single one or each
\* item of an array, holds only a, b and c, and its c, an object or each
\* item of an array, holds only d.
C15_OnlyPicked ==
    (interceptor = "pick" /\ Truthy(queryParams.pick) /\ ~IsThrow(emitted)) =>
        OnlyPicked(emitted.value, SplitComma(queryParams.pick.s))

\* the statement of C15 holds when the handler returns a single object
SingleObjectPicked ==
    handlerValue.t # "arr" => C15_OnlyPicked

(***************************************************************************)
(* Properties of the count header of find (SpecFind)                       *)
(***************************************************************************)
Counted == { doc \in Documents : matches(doc, executed) }

\* C16: after a find with a request that has a context, X-total-count is
\* the number of documents that match the final conditions, whatever
\* options.skip and options.limit are, and the documents returned are
\* among those counted.
C16_TotalCount ==
    (executed # None /\ Truthy(mongoRequest.request) /\ context) =>
        /\ xTotalCount = Str(IndexKey(Cardinality(Counted)))
        /\ found \subseteq Counted

\* a skip and a limit cut the returned documents below the count
C16_Witness ==
    /\ executed # None /\ Truthy(mongoRequest.request) /\ context
    /\ findOptions.skip # Undefined /\ findOptions.limit = Num(2, <<>>)
    /\ Cardinality(found) = 2
    /\ Cardinality(Counted) > 3
    /\ Counted # Documents
    /\ xTotalCount = Str(IndexKey(Cardinality(Counted)))

(***************************************************************************)
(* Properties of the casters (SpecCasters)                                 *)
(***************************************************************************)
Completed(c) == findCalls[c].pc \in {"returned", "threw"}

AllCompleted ==
    /\ \E c \in Calls : Completed(c)
    /\ \A c \in Calls : Completed(c) \/ findCalls[c].pc = "idle"

\* C17: once every call of find has completed, by returning or by
\* throwing, overlapping calls included, the caster of every schema type is
\* the one that was installed before the first call.
C17_CastersRestored ==
    AllCompleted => schemaCasters = DefaultCasters

\* a single call that returns puts the casters back
SingleCallRestores ==
    \A c \in Calls :
        (findCalls[c].pc = "returned" /\ \A d \in Calls \ {c} : findCalls[d].pc = "idle")
            => schemaCasters = DefaultCasters

(***************************************************************************)
(* Properties of the cache (SpecCache)                                     *)
(***************************************************************************)
\* C18: in every reachable state, after any interleaving of requests, the
\* static cache holds at most queueLength entries.
C18_CacheBounded ==
    Len(cache) <= queueLength

\* the cache that getCachedValue searches holds at most queueLength
\* entries: limitQueue runs before the lookup, not after the insertion
LookupBounded ==
    [][\A url \in Urls :
           (interceptCached(url) \/ interceptMissed(url)) => Len(cache') <= queueLength]_vars

(***************************************************************************)
(* Properties of the scalar leaves of a match (SpecQuery)                  *)
(***************************************************************************)
RECURSIVE Preserved(_, _, _)
\* the output holds every string leaf of the input at the same key,
\* decoded and passed through toPrimitive, and, if scalars are asked for,
\* every number, boolean and null at the same key with the same value
Preserved(input, output, scalars) ==
    CASE input.t = "obj" ->
           \A i \in 1..Len(input.kv) :
               Preserved(input.kv[i].v, property(output, input.kv[i].k), scalars)
      [] input.t = "arr" ->
           /\ output.t = "arr" /\ Len(output.a) = Len(input.a)
           /\ \A i \in 1..Len(input.a) : Preserved(input.a[i], output.a[i], scalars)
      [] input.t = "str" -> output = castString(input.s)
      [] input.t \in {"num", "bool", "null"} -> scalars => output = input
      [] OTHER -> TRUE

\* the query handed to queryToOptions: the JSON of the header for the
\* decorator that reads it, request.query otherwise
GivenQuery ==
    IF decorator = "header()" /\ Truthy(request.header) THEN JSONparse(request.header.s)
    ELSE request.query

\* a match object of which castQueryConditions omits no key and calls no
\* custom operator
WithinDepth ==
    /\ Returned
    /\ GivenQuery.match.t = "obj"
    /\ FieldDepthOf(GivenQuery.match) <= MaxDepthOf(config)
    /\ KeysOf(GivenQuery.match) \cap (PrototypeKeys \cup {K_isNull}) = {}

\* C19: every string leaf of the match appears in the output at the same
\* key as its URL-decoded value passed through toPrimitive, and every
\* number, boolean and null appears at the same key with the same value.
C19_ScalarsPreserved ==
    WithinDepth => Preserved(GivenQuery.match, result.options.match, TRUE)

\* the statement of C19 holds for the string leaves
StringLeavesPreserved ==
    WithinDepth => Preserved(GivenQuery.match, result.options.match, FALSE)

====
